---- MODULE Spec2Model ----
(***************************************************************************)
(* Model of blenkernel/intern/tracking.c: the marker store of a track, the *)
(* marker clamp, the join of two tracks, the TracksMap snapshot with its   *)
(* merge, and the 2D tracking step.                                        *)
(*                                                                         *)
(* Conventions.  A C array is a TLA+ sequence; indices in the model are    *)
(* the C (0-based) indices, so element a of the array is markers[a + 1].   *)
(* A flag word is the set of the names of its set bits.  A NULL            *)
(* dereference ends the process: it is recorded in the variable "fault",   *)
(* and no operation runs after it.                                         *)
(***************************************************************************)
EXTENDS Integers, Sequences, FiniteSets, TLC

(***************************************************************************)
(* Bounds of the model.                                                    *)
(***************************************************************************)
\* frames the caller passes to the marker store are 1..MaxFrame
MaxFrame == 3

\* frames a marker may lie on: a bracket marker is put one frame before or
\* after an existing one, so the range is one wider on each side
Frames == 1..MaxFrame
FrameRange == 0..(MaxFrame + 1)

\* coordinates of pattern corners and search window, in grid units on which
\* the float sums and differences of the clamp are exact
MaxCoord == 1
Coords == (-MaxCoord)..MaxCoord

\* the two tracks of a join have their markers on frames 1..MaxJoinFrame
MaxJoinFrame == 4
JoinFrames == 1..MaxJoinFrame

\* frames are FrameSize pixels wide and high
FrameSize == 4

\* the scene frame the clip starts at
ClipStartFrame == 2

\* a tracking context makes at most MaxSteps steps
MaxSteps == 2

\* a context that is stepped has at most StepTracks tracks
StepTracks == 2

\* the user makes at most MaxEdits edits while a context is there
MaxEdits == 2

\* a track list has at most MaxLive tracks
MaxLive == 3

\* a clip has at most MaxObjects objects
MaxObjects == 2

MarkerFlags == {{}, {"DISABLED"}, {"TRACKED"}}

(***************************************************************************)
(* State.                                                                  *)
(***************************************************************************)
VARIABLES
    track,      \* marker store: one MovieTrackingTrack [markers, last_marker]
    fault,      \* marker store: a NULL marker was dereferenced
    last,       \* marker store: the last call and what it returned
    cmarker,    \* clamp: the marker BKE_tracking_marker_clamp works on
    cevent,     \* clamp: the event of the last clamp, "none" before the first
    centry,     \* clamp: the marker as it was on entry to the clamp
    jdst,       \* join: dst_track
    jsrc,       \* join: src_track
    jentry,     \* join: the markers of dst_track on entry to the join
    jdone,      \* join: BKE_tracking_tracks_join has run
    dopesheet_ok, \* tracking->dopesheet.ok
    live,       \* tracking: the MovieTracking of the clip
    tracking_clipboard, \* tracking: tracking_clipboard.tracks
    job,        \* tracking: the MovieTrackingContext of the tracking job
    stepped,    \* tracking: the last step, "ran" when it was the last call
    merged,     \* tracking: the last merge, "ran" when it was the last call
    crashed,    \* tracking: a NULL pointer was dereferenced
    edit,       \* tracking: the last edit of the user and how many there were
    added,      \* tracking: the addresses of the tracks the user has added
    fork,       \* tracking: the tasks of the step that is running
    solve       \* reconstruction: the object that is solved and its context

storeVars == <<track, fault, last>>
clampVars == <<cmarker, cevent, centry>>
joinVars == <<jdst, jsrc, jentry, jdone>>
trackingVars ==
    <<live, tracking_clipboard, job, stepped, merged, crashed, edit, added,
      fork, solve>>

(***************************************************************************)
(* Marker store (tracking.c, "Marker" and "Tracks" sections).              *)
(***************************************************************************)
Marker(framenr, flag, pos) == [framenr |-> framenr, flag |-> flag, pos |-> pos]

markersnr(t) == Len(t.markers)

\* the rising scan of BKE_tracking_marker_get (the "<=" branch)
RECURSIVE marker_get_scan_up(_, _, _)
marker_get_scan_up(ms, a, framenr) ==
    IF a < Len(ms) /\ ms[a + 1].framenr <= framenr
    THEN IF ms[a + 1].framenr = framenr
         THEN [idx |-> a, exact |-> TRUE]
         ELSE marker_get_scan_up(ms, a + 1, framenr)
    ELSE [idx |-> a - 1, exact |-> FALSE]

\* the falling scan of BKE_tracking_marker_get (the else branch)
RECURSIVE marker_get_scan_down(_, _, _)
marker_get_scan_down(ms, a, framenr) ==
    IF a >= 0 /\ ms[a + 1].framenr >= framenr
    THEN IF ms[a + 1].framenr = framenr
         THEN [idx |-> a, exact |-> TRUE]
         ELSE marker_get_scan_down(ms, a - 1, framenr)
    ELSE [idx |-> a, exact |-> FALSE]

\* where the scan of BKE_tracking_marker_get starts: the hint when it is in
\* range, the last marker otherwise
marker_get_start(t) ==
    IF t.last_marker < markersnr(t) THEN t.last_marker ELSE markersnr(t) - 1

\* what BKE_tracking_marker_get returns after its scan r = [idx, exact]: the
\* hint is set on an exact hit only
marker_get_found(t, r) ==
    [null |-> FALSE, idx |-> r.idx,
     t |-> IF r.exact THEN [t EXCEPT !.last_marker = r.idx] ELSE t]

\* a mutant of BKE_tracking_marker_get: the hint is used without the range
\* test and the scan only ever rises from it
marker_get_rising_only(t, framenr) ==
    IF markersnr(t) = 0
    THEN [null |-> TRUE, idx |-> 0, t |-> t]
    ELSE IF framenr < t.markers[1].framenr
    THEN [null |-> FALSE, idx |-> 0, t |-> t]
    ELSE marker_get_found(
             t, marker_get_scan_up(t.markers, marker_get_start(t), framenr))

\* the scan of BKE_tracking_marker_get from index a: rising when the marker
\* at a is at or before the frame, falling otherwise
marker_get_scan(ms, a, framenr) ==
    IF ms[a + 1].framenr <= framenr
    THEN marker_get_scan_up(ms, a, framenr)
    ELSE marker_get_scan_down(ms, a, framenr)

\* BKE_tracking_marker_get: [null, idx, t], the marker returned (NULL, or
\* &markers[idx]) and the track with its hint updated
BKE_tracking_marker_get(t, framenr) ==
    IF markersnr(t) = 0
    THEN [null |-> TRUE, idx |-> 0, t |-> t]
    ELSE IF framenr < t.markers[1].framenr
    THEN [null |-> FALSE, idx |-> 0, t |-> t]
    ELSE marker_get_found(
             t, marker_get_scan(t.markers, marker_get_start(t), framenr))

\* the body of BKE_tracking_marker_get_exact on the marker g returned by
\* BKE_tracking_marker_get: g is dereferenced without a NULL test
marker_get_exact_filter(g, framenr) ==
    IF g.null
    THEN [fault |-> TRUE, null |-> TRUE, idx |-> 0, t |-> g.t]
    ELSE IF g.t.markers[g.idx + 1].framenr # framenr
    THEN [fault |-> FALSE, null |-> TRUE, idx |-> 0, t |-> g.t]
    ELSE [fault |-> FALSE, null |-> FALSE, idx |-> g.idx, t |-> g.t]

\* BKE_tracking_marker_get_exact: [fault, null, idx, t]
BKE_tracking_marker_get_exact(t, framenr) ==
    marker_get_exact_filter(BKE_tracking_marker_get(t, framenr), framenr)

\* the test of BKE_tracking_track_has_marker_at_frame on the marker e that
\* BKE_tracking_marker_get_exact returned
has_marker_test(e) == [fault |-> e.fault, has |-> ~e.null, t |-> e.t]

\* BKE_tracking_track_has_marker_at_frame: [fault, has, t]
BKE_tracking_track_has_marker_at_frame(t, framenr) ==
    has_marker_test(BKE_tracking_marker_get_exact(t, framenr))

\* the test of BKE_tracking_track_has_enabled_marker_at_frame on the marker
\* e that BKE_tracking_marker_get_exact returned
has_enabled_marker_test(e) ==
    [fault |-> e.fault,
     has |-> ~e.null /\ "DISABLED" \notin e.t.markers[e.idx + 1].flag,
     t |-> e.t]

\* BKE_tracking_track_has_enabled_marker_at_frame: [fault, has, t]
BKE_tracking_track_has_enabled_marker_at_frame(t, framenr) ==
    has_enabled_marker_test(BKE_tracking_marker_get_exact(t, framenr))

\* a mutant of marker_insert_position: the new marker always goes last
marker_insert_position_last(ms, a, framenr) == a - 1

\* the position search of BKE_tracking_marker_insert: while (a--) ...
RECURSIVE marker_insert_position(_, _, _)
marker_insert_position(ms, a, framenr) ==
    IF a = 0 THEN -1
    ELSE IF ms[a].framenr < framenr THEN a - 1
    ELSE marker_insert_position(ms, a - 1, framenr)

InsertAt(ms, k, m) ==
    [i \in 1..(Len(ms) + 1) |->
        IF i < k THEN ms[i] ELSE IF i = k THEN m ELSE ms[i - 1]]

\* a mutant of marker_insert_new: the hint is not set
marker_insert_new_no_hint(t, a, marker) ==
    [t EXCEPT !.markers = InsertAt(t.markers, a + 2, marker)]

\* the else branch of BKE_tracking_marker_insert: the marker is put at
\* index a + 1 and the hint set to it
marker_insert_new(t, a, marker) ==
    [t EXCEPT !.markers = InsertAt(t.markers, a + 2, marker),
              !.last_marker = a + 1]

\* the lookup BKE_tracking_marker_insert starts with: old_marker stays NULL
\* on a track without markers
marker_insert_old(t, framenr) ==
    IF markersnr(t) # 0
    THEN BKE_tracking_marker_get_exact(t, framenr)
    ELSE [fault |-> FALSE, null |-> TRUE, idx |-> 0, t |-> t]

\* BKE_tracking_marker_insert once old_marker e is known
marker_insert_place(e, marker) ==
    IF ~e.null
    THEN [e.t EXCEPT !.markers[e.idx + 1] = marker]
    ELSE marker_insert_new(
             e.t,
             marker_insert_position(e.t.markers, markersnr(e.t), marker.framenr),
             marker)

\* BKE_tracking_marker_insert: the track after the call
BKE_tracking_marker_insert(t, marker) ==
    marker_insert_place(marker_insert_old(t, marker.framenr), marker)

RemoveAt(ms, k) ==
    [i \in 1..(Len(ms) - 1) |-> IF i < k THEN ms[i] ELSE ms[i + 1]]

\* BKE_tracking_marker_delete: the first marker of the frame is removed; the
\* hint is left as it is
BKE_tracking_marker_delete(t, framenr) ==
    LET hits == {a \in 1..Len(t.markers) : t.markers[a].framenr = framenr}
    IN  IF hits = {} THEN t
        ELSE LET a == CHOOSE x \in hits : \A y \in hits : x <= y
             IN  [t EXCEPT !.markers = RemoveAt(t.markers, a)]

\* BKE_tracking_marker_ensure once the nearest marker g is known
marker_ensure_from(g, framenr) ==
    IF g.null THEN [fault |-> TRUE, t |-> g.t]
    ELSE IF g.t.markers[g.idx + 1].framenr # framenr
    THEN [fault |-> FALSE,
          t |-> BKE_tracking_marker_get(
                    BKE_tracking_marker_insert(
                        g.t, [g.t.markers[g.idx + 1] EXCEPT !.framenr = framenr]),
                    framenr).t]
    ELSE [fault |-> FALSE, t |-> g.t]

\* BKE_tracking_marker_ensure: [fault, t]
BKE_tracking_marker_ensure(t, framenr) ==
    marker_ensure_from(BKE_tracking_marker_get(t, framenr), framenr)

\* the marker tracking_marker_insert_disabled builds from ref_marker
disabled_marker(ref_marker, before) ==
    [ref_marker EXCEPT
        !.flag = (ref_marker.flag \ {"TRACKED"}) \cup {"DISABLED"},
        !.framenr = IF before THEN ref_marker.framenr - 1
                    ELSE ref_marker.framenr + 1]

\* the insertion of tracking_marker_insert_disabled without overwrite, h
\* being the answer of BKE_tracking_track_has_marker_at_frame
insert_if_absent(h, marker_new) ==
    IF h.fault THEN [fault |-> TRUE, t |-> h.t]
    ELSE IF h.has THEN [fault |-> FALSE, t |-> h.t]
    ELSE [fault |-> FALSE, t |-> BKE_tracking_marker_insert(h.t, marker_new)]

\* the last statement of tracking_marker_insert_disabled
insert_disabled_marker(t, marker_new, overwrite) ==
    IF overwrite
    THEN [fault |-> FALSE, t |-> BKE_tracking_marker_insert(t, marker_new)]
    ELSE insert_if_absent(
             BKE_tracking_track_has_marker_at_frame(t, marker_new.framenr),
             marker_new)

\* tracking_marker_insert_disabled: [fault, t]
tracking_marker_insert_disabled(t, ref_marker, before, overwrite) ==
    insert_disabled_marker(t, disabled_marker(ref_marker, before), overwrite)

\* the loop of TRACK_CLEAR_REMAINED: the first a >= 1 with a frame beyond
\* ref_frame, or markersnr when there is none
RECURSIVE path_clear_remained_cut(_, _, _)
path_clear_remained_cut(ms, a, ref_frame) ==
    IF a < Len(ms)
    THEN IF ms[a + 1].framenr > ref_frame THEN a
         ELSE path_clear_remained_cut(ms, a + 1, ref_frame)
    ELSE Len(ms)

\* the loop of TRACK_CLEAR_UPTO: the last a with a frame at or before
\* ref_frame, or 0 when there is none (nothing is moved then)
RECURSIVE path_clear_upto_cut(_, _, _)
path_clear_upto_cut(ms, a, ref_frame) ==
    IF a >= 0
    THEN IF ms[a + 1].framenr <= ref_frame THEN a
         ELSE path_clear_upto_cut(ms, a - 1, ref_frame)
    ELSE 0

\* the end of TRACK_CLEAR_REMAINED: a DISABLED marker after the last one
path_clear_remained_end(cut) ==
    IF markersnr(cut) # 0
    THEN tracking_marker_insert_disabled(
             cut, cut.markers[markersnr(cut)], FALSE, TRUE)
    ELSE [fault |-> FALSE, t |-> cut]

\* the end of TRACK_CLEAR_UPTO: a DISABLED marker before the first one
path_clear_upto_end(cut) ==
    IF markersnr(cut) # 0
    THEN tracking_marker_insert_disabled(cut, cut.markers[1], TRUE, TRUE)
    ELSE [fault |-> FALSE, t |-> cut]

\* TRACK_CLEAR_ALL once the marker copied to marker_new is known: the array
\* is freed, marker_new inserted and bracketed on both sides
path_clear_all_rebuild(t, marker_new) ==
    tracking_marker_insert_disabled(
        tracking_marker_insert_disabled(
            BKE_tracking_marker_insert([t EXCEPT !.markers = <<>>], marker_new),
            marker_new, TRUE, TRUE).t,
        marker_new, FALSE, TRUE)

\* TRACK_CLEAR_ALL: the marker BKE_tracking_marker_get returned is copied
\* without a NULL test
path_clear_all(g) ==
    IF g.null THEN [fault |-> TRUE, t |-> g.t]
    ELSE path_clear_all_rebuild(g.t, g.t.markers[g.idx + 1])

\* BKE_tracking_track_path_clear: [fault, t]
BKE_tracking_track_path_clear(t, ref_frame, action) ==
    IF action = "TRACK_CLEAR_REMAINED"
    THEN path_clear_remained_end(
             [t EXCEPT !.markers =
                 SubSeq(t.markers, 1,
                        path_clear_remained_cut(t.markers, 1, ref_frame))])
    ELSE IF action = "TRACK_CLEAR_UPTO"
    THEN path_clear_upto_end(
             [t EXCEPT !.markers =
                 SubSeq(t.markers,
                        path_clear_upto_cut(t.markers, markersnr(t) - 1,
                                            ref_frame) + 1,
                        Len(t.markers))])
    ELSE path_clear_all(BKE_tracking_marker_get(t, ref_frame))

(***************************************************************************)
(* The marker store as a state machine: one track, created with one       *)
(* marker as BKE_tracking_track_add creates it, and the calls a client     *)
(* makes on it.                                                            *)
(***************************************************************************)
InFrameRange(t) == \A i \in 1..Len(t.markers) : t.markers[i].framenr \in FrameRange

NoCall == [op |-> "none", framenr |-> 0, null |-> TRUE, idx |-> 0]

StoreInit ==
    /\ \E framenr \in Frames :
          track = BKE_tracking_marker_insert(
                      [markers |-> <<>>, last_marker |-> 0],
                      Marker(framenr, {}, 0))
    /\ fault = FALSE
    /\ last = NoCall

MarkerInsert ==
    \E framenr \in Frames, flag \in MarkerFlags :
        /\ ~fault
        /\ track' = BKE_tracking_marker_insert(track, Marker(framenr, flag, 0))
        /\ last' = [op |-> "insert", framenr |-> framenr, null |-> FALSE,
                    idx |-> 0]
        /\ UNCHANGED fault

MarkerDelete ==
    \E framenr \in Frames :
        /\ ~fault
        /\ track' = BKE_tracking_marker_delete(track, framenr)
        /\ last' = [op |-> "delete", framenr |-> framenr, null |-> TRUE,
                    idx |-> 0]
        /\ UNCHANGED fault

MarkerGet ==
    \E framenr \in Frames :
        /\ ~fault
        /\ LET g == BKE_tracking_marker_get(track, framenr)
           IN  /\ track' = g.t
               /\ last' = [op |-> "get", framenr |-> framenr, null |-> g.null,
                           idx |-> g.idx]
        /\ UNCHANGED fault

MarkerGetExact ==
    \E framenr \in Frames :
        /\ ~fault
        /\ LET e == BKE_tracking_marker_get_exact(track, framenr)
           IN  /\ track' = e.t
               /\ fault' = e.fault
               /\ last' = [op |-> "get_exact", framenr |-> framenr,
                           null |-> e.null, idx |-> e.idx]

MarkerEnsure ==
    \E framenr \in Frames :
        /\ ~fault
        /\ LET r == BKE_tracking_marker_ensure(track, framenr)
           IN  /\ track' = r.t
               /\ fault' = r.fault
        /\ last' = [op |-> "ensure", framenr |-> framenr, null |-> FALSE,
                    idx |-> 0]

PathClear ==
    \E ref_frame \in Frames,
       action \in {"TRACK_CLEAR_REMAINED", "TRACK_CLEAR_UPTO", "TRACK_CLEAR_ALL"} :
        /\ ~fault
        /\ LET r == BKE_tracking_track_path_clear(track, ref_frame, action)
           IN  /\ InFrameRange(r.t)
               /\ track' = r.t
               /\ fault' = r.fault
        /\ last' = [op |-> action, framenr |-> ref_frame, null |-> FALSE,
                    idx |-> 0]

StoreNext ==
    \/ MarkerInsert
    \/ MarkerDelete
    \/ MarkerGet
    \/ MarkerGetExact
    \/ MarkerEnsure
    \/ PathClear

(***************************************************************************)
(* Marker clamp (tracking.c, BKE_tracking_marker_clamp).  A marker is here *)
(* [pattern_corners, search_min, search_max], a point is <<x, y>>.         *)
(***************************************************************************)
Axes == {1, 2}

MinOf(S) == CHOOSE x \in S : \A y \in S : x <= y
MaxOf(S) == CHOOSE x \in S : \A y \in S : x >= y

\* BKE_tracking_marker_pattern_minmax: [min, max] over the four corners
BKE_tracking_marker_pattern_minmax(marker) ==
    [min |-> [a \in Axes |-> MinOf({marker.pattern_corners[b][a] : b \in 1..4})],
     max |-> [a \in Axes |-> MaxOf({marker.pattern_corners[b][a] : b \in 1..4})]]

min_ff(a, b) == IF a < b THEN a ELSE b
max_ff(a, b) == IF a > b THEN a ELSE b

\* CLAMP_PAT_DIM and CLAMP_SEARCH_DIM: the search window grows to hold the
\* pattern
clamp_search_dim(marker, pat) ==
    [marker EXCEPT
        !.search_min = [a \in Axes |-> min_ff(pat.min[a], marker.search_min[a])],
        !.search_max = [a \in Axes |-> max_ff(pat.max[a], marker.search_max[a])]]

\* a mutant of clamp_pat_shift: the signs of the two shifts are swapped
clamp_pat_shift_away(marker, pat, a) ==
    (IF pat.max[a] > marker.search_max[a]
     THEN pat.max[a] - marker.search_max[a] ELSE 0)
    - (IF pat.min[a] < marker.search_min[a]
       THEN marker.search_min[a] - pat.min[a] ELSE 0)

\* CLAMP_PAT_POS, the shift of the corners on axis a: both tests read the
\* bounding box taken before the first shift
clamp_pat_shift(marker, pat, a) ==
    (IF pat.min[a] < marker.search_min[a]
     THEN marker.search_min[a] - pat.min[a] ELSE 0)
    - (IF pat.max[a] > marker.search_max[a]
       THEN pat.max[a] - marker.search_max[a] ELSE 0)

\* CLAMP_PAT_POS: the four corners are moved, the window stays
clamp_pat_pos(marker, pat) ==
    [marker EXCEPT
        !.pattern_corners =
            [b \in 1..4 |->
                [a \in Axes |->
                    marker.pattern_corners[b][a] + clamp_pat_shift(marker, pat, a)]]]

\* CLAMP_SEARCH_POS on axis a, first test: [min, max] of the window after it
clamp_search_pos_low(smin, smax, pmin, dim) ==
    IF smin > pmin THEN [min |-> pmin, max |-> pmin + dim]
    ELSE [min |-> smin, max |-> smax]

\* CLAMP_SEARCH_POS on axis a, second test, on the window w the first left
clamp_search_pos_high(w, pmax, dim) ==
    IF w.max < pmax THEN [min |-> pmax - dim, max |-> pmax] ELSE w

\* CLAMP_SEARCH_POS on axis a: the window is moved, its size dim kept
clamp_search_pos_axis(marker, pat, a) ==
    clamp_search_pos_high(
        clamp_search_pos_low(marker.search_min[a], marker.search_max[a],
                             pat.min[a],
                             marker.search_max[a] - marker.search_min[a]),
        pat.max[a],
        marker.search_max[a] - marker.search_min[a])

\* CLAMP_SEARCH_POS
clamp_search_pos(marker, pat) ==
    [marker EXCEPT
        !.search_min = [a \in Axes |-> clamp_search_pos_axis(marker, pat, a).min],
        !.search_max = [a \in Axes |-> clamp_search_pos_axis(marker, pat, a).max]]

\* the dispatch of BKE_tracking_marker_clamp on the event, pat being the
\* bounding box of the pattern on entry
marker_clamp_event(marker, pat, event) ==
    IF event = "CLAMP_PAT_DIM" THEN clamp_search_dim(marker, pat)
    ELSE IF event = "CLAMP_PAT_POS" THEN clamp_pat_pos(marker, pat)
    ELSE IF event = "CLAMP_SEARCH_DIM" THEN clamp_search_dim(marker, pat)
    ELSE IF event = "CLAMP_SEARCH_POS" THEN clamp_search_pos(marker, pat)
    ELSE marker

\* BKE_tracking_marker_clamp
BKE_tracking_marker_clamp(marker, event) ==
    marker_clamp_event(marker, BKE_tracking_marker_pattern_minmax(marker), event)

ClampEvents ==
    {"CLAMP_PAT_DIM", "CLAMP_PAT_POS", "CLAMP_SEARCH_DIM", "CLAMP_SEARCH_POS"}

\* a marker whose pattern is the rectangle [plo, phi] with its corners in
\* the order BKE_tracking_track_add gives them, and whose search window is
\* [slo, shi]
ClampMarker(plo, phi, slo, shi) ==
    [pattern_corners |-> << <<plo[1], plo[2]>>, <<phi[1], plo[2]>>,
                            <<phi[1], phi[2]>>, <<plo[1], phi[2]>> >>,
     search_min |-> slo,
     search_max |-> shi]

Boxes == {b \in [lo : Coords \X Coords, hi : Coords \X Coords] :
             b.lo[1] < b.hi[1] /\ b.lo[2] < b.hi[2]}

ClampIdle ==
    /\ cmarker = ClampMarker(<<0, 0>>, <<0, 0>>, <<0, 0>>, <<0, 0>>)
    /\ cevent = "none"
    /\ centry = cmarker

StoreIdle ==
    /\ track = [markers |-> <<>>, last_marker |-> 0]
    /\ fault = FALSE
    /\ last = NoCall

\* any marker with a pattern rectangle and a search window of non-zero size
ClampInit ==
    /\ \E p \in Boxes, w \in Boxes : cmarker = ClampMarker(p.lo, p.hi, w.lo, w.hi)
    /\ cevent = "none"
    /\ centry = cmarker

\* one clamp of the marker drawn by ClampInit (every marker of the bounded
\* set is a first state, so a second clamp would add no case)
MarkerClamp ==
    \E event \in ClampEvents :
        /\ cevent = "none"
        /\ cmarker' = BKE_tracking_marker_clamp(cmarker, event)
        /\ cevent' = event
        /\ centry' = cmarker

(***************************************************************************)
(* Join of two tracks (tracking.c, BKE_tracking_tracks_join).  A position  *)
(* is <<x, y>> in units fine enough for the blend factors j / (len - 1)    *)
(* and 1/2 to give whole numbers; a factor is the fraction [num, den].     *)
(***************************************************************************)
Disabled(marker) == "DISABLED" \in marker.flag

\* interp_v2_v2v2(target, a, b, t): (1 - t) * a + t * b on both components
interp_v2_v2v2(a, b, t) ==
    [c \in 1..2 |-> ((t.den - t.num) * a[c] + t.num * b[c]) \div t.den]

\* "find length of intersection": the number of frames from "frame" on at
\* which src (from index a) and dst (from index b) both hold an enabled
\* marker
RECURSIVE join_intersection_len(_, _, _, _, _)
join_intersection_len(src, dst, a, b, frame) ==
    IF /\ a < Len(src) /\ b < Len(dst)
       /\ ~Disabled(src[a + 1]) /\ ~Disabled(dst[b + 1])
       /\ src[a + 1].framenr = frame /\ dst[b + 1].framenr = frame
    THEN 1 + join_intersection_len(src, dst, a + 1, b + 1, frame + 1)
    ELSE 0

\* the flag "inverse" of the blend that starts at dst index b on "frame"
join_inverse(dst, b, frame) ==
    \/ b = 0
    \/ Disabled(dst[b])
    \/ dst[b].framenr # frame - 1

\* a mutant of join_fac: the factor is never inverted
join_fac_not_inverted(len, j, inverse) ==
    IF len > 1 THEN [num |-> j, den |-> len - 1] ELSE [num |-> 1, den |-> 2]

\* the factor of the j-th frame of a blend of len frames
join_fac(len, j, inverse) ==
    IF inverse
    THEN IF len > 1 THEN [num |-> (len - 1) - j, den |-> len - 1]
         ELSE [num |-> 1, den |-> 2]
    ELSE IF len > 1 THEN [num |-> j, den |-> len - 1]
         ELSE [num |-> 1, den |-> 2]

\* "linear interpolation for intersecting frames": the len markers written
join_blend(src, dst, a, b, len, inverse) ==
    [j \in 1..len |->
        [dst[b + j] EXCEPT
            !.pos = interp_v2_v2v2(dst[b + j].pos, src[a + j].pos,
                                   join_fac(len, j - 1, inverse))]]

\* the merge loop of BKE_tracking_tracks_join with a and b the read indices
\* into src and dst and out the markers written so far
RECURSIVE tracks_join_loop(_, _, _, _, _)
tracks_join_loop(src, dst, a, b, out) ==
    IF ~(a < Len(src) \/ b < Len(dst)) THEN out
    ELSE IF b >= Len(dst)
    THEN tracks_join_loop(src, dst, a + 1, b, Append(out, src[a + 1]))
    ELSE IF a >= Len(src)
    THEN tracks_join_loop(src, dst, a, b + 1, Append(out, dst[b + 1]))
    ELSE IF src[a + 1].framenr < dst[b + 1].framenr
    THEN tracks_join_loop(src, dst, a + 1, b, Append(out, src[a + 1]))
    ELSE IF src[a + 1].framenr > dst[b + 1].framenr
    THEN tracks_join_loop(src, dst, a, b + 1, Append(out, dst[b + 1]))
    ELSE IF Disabled(src[a + 1])
    THEN tracks_join_loop(src, dst, a + 1, b + 1, Append(out, dst[b + 1]))
    ELSE IF Disabled(dst[b + 1])
    THEN tracks_join_loop(src, dst, a + 1, b + 1, Append(out, src[a + 1]))
    ELSE tracks_join_loop(
             src, dst,
             a + join_intersection_len(src, dst, a, b, src[a + 1].framenr),
             b + join_intersection_len(src, dst, a, b, src[a + 1].framenr),
             out \o join_blend(
                        src, dst, a, b,
                        join_intersection_len(src, dst, a, b, src[a + 1].framenr),
                        join_inverse(dst, b, src[a + 1].framenr)))

\* BKE_tracking_tracks_join: dst_track after the call
BKE_tracking_tracks_join(dst_track, src_track) ==
    [dst_track EXCEPT
        !.markers = tracks_join_loop(src_track.markers, dst_track.markers,
                                     0, 0, <<>>)]

\* the position of the marker a track of the join holds on a frame: every
\* marker has its own, the two components differ
JoinPos(which, framenr) ==
    IF which = "dst" THEN <<60 * framenr, 120 * framenr + 60>>
    ELSE <<600 - 60 * framenr, 60 * framenr * framenr>>

\* the track that holds on each frame of JoinFrames what "shape" says:
\* "none", "enabled" or "disabled"
RECURSIVE JoinMarkers(_, _, _)
JoinMarkers(which, shape, framenr) ==
    IF framenr > MaxJoinFrame THEN <<>>
    ELSE (IF shape[framenr] = "none" THEN <<>>
          ELSE << Marker(framenr,
                         IF shape[framenr] = "disabled" THEN {"DISABLED"} ELSE {},
                         JoinPos(which, framenr)) >>)
         \o JoinMarkers(which, shape, framenr + 1)

JoinShapes ==
    {sh \in [JoinFrames -> {"none", "enabled", "disabled"}] :
        \E f \in JoinFrames : sh[f] # "none"}

JoinIdle ==
    /\ jdst = [markers |-> <<>>, last_marker |-> 0]
    /\ jsrc = [markers |-> <<>>, last_marker |-> 0]
    /\ jentry = <<>>
    /\ jdone = FALSE

\* two tracks with markers, sorted by frame as the marker store keeps them
JoinInitOf(shapes) ==
    /\ \E sd \in shapes, ss \in shapes :
          /\ jdst = [markers |-> JoinMarkers("dst", sd, 1), last_marker |-> 0]
          /\ jsrc = [markers |-> JoinMarkers("src", ss, 1), last_marker |-> 0]
    /\ jentry = jdst.markers
    /\ jdone = FALSE

JoinInit == JoinInitOf(JoinShapes)

\* BKE_tracking_dopesheet_tag_update
BKE_tracking_dopesheet_tag_update == dopesheet_ok' = FALSE

TracksJoin ==
    /\ ~jdone
    /\ jdst' = BKE_tracking_tracks_join(jdst, jsrc)
    /\ jentry' = jdst.markers
    /\ jdone' = TRUE
    /\ BKE_tracking_dopesheet_tag_update
    /\ UNCHANGED jsrc

(***************************************************************************)
(* Tracks, objects and the clipboard (tracking.c, "clipboard", "Tracks"    *)
(* and "Object" sections).  A track is [addr, name, flag, pat_flag,        *)
(* search_flag, pattern_match, margin, markers, last_marker]; addr is the  *)
(* address of the MovieTrackingTrack, NULL is 0, and two pointers are      *)
(* equal when the addresses are.  A name is [base, nr]: "Track" is         *)
(* [base |-> "Track", nr |-> 0] and "Track.001" is the same base with      *)
(* nr 1.  A marker of these tracks is [framenr, flag, pos,                 *)
(* pattern_corners] with coordinates in units of 1/FrameSize of the frame. *)
(***************************************************************************)
NULL == 0

TrackName(base, nr) == [base |-> base, nr |-> nr]

TrackMarker(framenr, flag, pos, pattern_corners) ==
    [framenr |-> framenr, flag |-> flag, pos |-> pos,
     pattern_corners |-> pattern_corners]

HasMarkerOn(t, framenr) ==
    \E i \in 1..Len(t.markers) : t.markers[i].framenr = framenr

\* the names of the elements of a list other than element k
names_but(list, k) == {list[i].name : i \in (1..Len(list)) \ {k}}

\* the numbering loop of BLI_uniquename: the number after the name's own
\* is tried, then the next, until no other element has the name
RECURSIVE uniquename_number(_, _, _)
uniquename_number(others, base, nr) ==
    IF TrackName(base, nr + 1) \notin others
    THEN TrackName(base, nr + 1)
    ELSE uniquename_number(others, base, nr + 1)

\* BLI_uniquename on element k of a list: the name is kept when no other
\* element has it
BLI_uniquename(list, k) ==
    IF list[k].name \notin names_but(list, k)
    THEN list
    ELSE [list EXCEPT ![k].name =
             uniquename_number(names_but(list, k), list[k].name.base,
                               list[k].name.nr)]

\* a mutant of BKE_tracking_track_unique_name: the name is left as it is
track_unique_name_skipped(list, k) == list

\* BKE_tracking_track_unique_name
BKE_tracking_track_unique_name(list, k) == BLI_uniquename(list, k)

\* the corners BKE_tracking_track_add gives the first marker
track_add_corners(pat) ==
    <<<<-pat[1], -pat[2]>>, <<pat[1], -pat[2]>>,
      <<pat[1], pat[2]>>, <<-pat[1], pat[2]>>>>

\* the track BKE_tracking_track_add allocates at addr, before it is linked
track_add_new(settings, addr, pos, framenr) ==
    BKE_tracking_marker_insert(
        [addr |-> addr, name |-> TrackName("Track", 0),
         flag |-> settings.default_flag, pat_flag |-> {}, search_flag |-> {},
         pattern_match |-> settings.default_pattern_match,
         margin |-> settings.default_margin,
         bundle_pos |-> 0, error |-> 0,
         markers |-> <<>>, last_marker |-> 0],
        TrackMarker(framenr, {}, pos,
                    track_add_corners(<<settings.default_pattern_size \div 2,
                                        settings.default_pattern_size \div 2>>)))

\* BKE_tracking_track_add: the list with the new track at its tail
BKE_tracking_track_add(settings, tracksbase, addr, pos, framenr) ==
    BKE_tracking_track_unique_name(
        Append(tracksbase, track_add_new(settings, addr, pos, framenr)),
        Len(tracksbase) + 1)

\* tracking_track_duplicate: the copy lives at addr
tracking_track_duplicate(t, addr) == [t EXCEPT !.addr = addr]

TRACK_SELECTED(t) ==
    "SELECT" \in t.flag \/ "SELECT" \in t.pat_flag \/ "SELECT" \in t.search_flag

\* BKE_tracking_track_flag_set and BKE_tracking_track_flag_clear, area
\* being a set of "POINT", "PAT" and "SEARCH"
BKE_tracking_track_flag_set(t, area, flag) ==
    [t EXCEPT
        !.flag = IF "POINT" \in area THEN @ \cup {flag} ELSE @,
        !.pat_flag = IF "PAT" \in area THEN @ \cup {flag} ELSE @,
        !.search_flag = IF "SEARCH" \in area THEN @ \cup {flag} ELSE @]

BKE_tracking_track_flag_clear(t, area, flag) ==
    [t EXCEPT
        !.flag = IF "POINT" \in area THEN @ \ {flag} ELSE @,
        !.pat_flag = IF "PAT" \in area THEN @ \ {flag} ELSE @,
        !.search_flag = IF "SEARCH" \in area THEN @ \ {flag} ELSE @]

TRACK_AREA_ALL == {"POINT", "PAT", "SEARCH"}

\* the body of the loop of BKE_tracking_track_select on a track that is not
\* hidden
track_select_visible(cur, is_track, area) ==
    IF is_track
    THEN BKE_tracking_track_flag_set(
             BKE_tracking_track_flag_clear(cur, TRACK_AREA_ALL, "SELECT"),
             area, "SELECT")
    ELSE BKE_tracking_track_flag_clear(cur, TRACK_AREA_ALL, "SELECT")

\* BKE_tracking_track_select on element k of the list
BKE_tracking_track_select(tracksbase, k, area, extend) ==
    IF extend
    THEN [tracksbase EXCEPT ![k] = BKE_tracking_track_flag_set(@, area, "SELECT")]
    ELSE [i \in 1..Len(tracksbase) |->
            IF "HIDDEN" \notin tracksbase[i].flag
            THEN track_select_visible(tracksbase[i], i = k, area)
            ELSE tracksbase[i]]

\* BKE_tracking_track_deselect
BKE_tracking_track_deselect(t, area) ==
    BKE_tracking_track_flag_clear(t, area, "SELECT")


\* A MovieTracking is [tracks, objects, objectnr, tot_object, act_track,
\* rot_track, settings, stabilization_ok], the last being stabilization.ok;
\* an object is [name, flag, tracks].  A track list is
\* named by 0 for tracking->tracks and by k for the tracks of the k-th
\* object.
ListOf(tracking, l) ==
    IF l = 0 THEN tracking.tracks ELSE tracking.objects[l].tracks

SetList(tracking, l, list) ==
    IF l = 0 THEN [tracking EXCEPT !.tracks = list]
    ELSE [tracking EXCEPT !.objects[l].tracks = list]

Lists(tracking) == 0..Len(tracking.objects)

\* the addresses of the tracks of a list, and of all the lists
ListAddrs(list) == {list[i].addr : i \in 1..Len(list)}

LiveAddrs(tracking) ==
    UNION {ListAddrs(ListOf(tracking, l)) : l \in Lists(tracking)}

\* an address no track lives at and no pointer holds.  Which of these the
\* allocator returns makes no difference, the lowest is taken.
FreshAddr(held) ==
    CHOOSE a \in 1..(Cardinality(held) + 1) :
        a \notin held /\ \A b \in 1..(a - 1) : b \in held

\* BKE_tracking_object_get_active: the index of the object, 0 for NULL
BKE_tracking_object_get_active(tracking) ==
    IF tracking.objectnr >= 0 /\ tracking.objectnr < Len(tracking.objects)
    THEN tracking.objectnr + 1 ELSE 0

\* the test of BKE_tracking_get_active_tracks on the active object
get_active_tracks_of(tracking, object) ==
    IF object # 0 /\ "CAMERA" \notin tracking.objects[object].flag
    THEN object ELSE 0

\* BKE_tracking_get_active_tracks
BKE_tracking_get_active_tracks(tracking) ==
    get_active_tracks_of(tracking, BKE_tracking_object_get_active(tracking))

\* BKE_tracking_object_get_tracks
BKE_tracking_object_get_tracks(tracking, object) ==
    IF "CAMERA" \in tracking.objects[object].flag THEN 0 ELSE object

\* BKE_tracking_track_get_active: act_track when it is in the list of the
\* active object, NULL otherwise
BKE_tracking_track_get_active(tracking) ==
    IF tracking.act_track = NULL THEN NULL
    ELSE IF tracking.act_track \in
              ListAddrs(ListOf(tracking, BKE_tracking_get_active_tracks(tracking)))
    THEN tracking.act_track
    ELSE NULL

\* BKE_tracking_object_get_named: the index of the first object of the name,
\* 0 for NULL
BKE_tracking_object_get_named(tracking, name) ==
    IF \E k \in 1..Len(tracking.objects) : tracking.objects[k].name = name
    THEN CHOOSE k \in 1..Len(tracking.objects) :
             /\ tracking.objects[k].name = name
             /\ \A j \in 1..(k - 1) : tracking.objects[j].name # name
    ELSE 0

\* the object BKE_tracking_object_add allocates
object_add_new(tracking, name) ==
    IF tracking.tot_object = 0
    THEN [name |-> TrackName("Camera", 0), flag |-> {"CAMERA"}, tracks |-> <<>>]
    ELSE [name |-> name, flag |-> {}, tracks |-> <<>>]

\* BKE_tracking_object_unique_name on the k-th object
BKE_tracking_object_unique_name(objects, k) == BLI_uniquename(objects, k)

\* BKE_tracking_object_add: the new object is the last one and the active
\* one
BKE_tracking_object_add(tracking, name) ==
    [tracking EXCEPT
        !.objects = BKE_tracking_object_unique_name(
                        Append(@, object_add_new(tracking, name)), Len(@) + 1),
        !.tot_object = @ + 1,
        !.objectnr = Len(tracking.objects)]

\* a mutant of object_delete_camera: every object may be deleted
object_delete_camera_never(object) == FALSE

\* the test of BKE_tracking_object_delete on the flag of the object
object_delete_camera(object) == "CAMERA" \in object.flag

\* BKE_tracking_object_delete of the k-th object: [ok, tracking]; act_track
\* is cleared when it is one of the tracks of the object
BKE_tracking_object_delete(tracking, k) ==
    IF object_delete_camera(tracking.objects[k])
    THEN [ok |-> FALSE, tracking |-> tracking]
    ELSE [ok |-> TRUE,
          tracking |->
             [tracking EXCEPT
                 !.act_track =
                    IF @ \in ListAddrs(tracking.objects[k].tracks) THEN NULL ELSE @,
                 !.objects = RemoveAt(@, k),
                 !.tot_object = @ - 1,
                 !.objectnr = IF k - 1 # 0 THEN k - 2 ELSE 0]]

\* BKE_tracking_clipboard_copy_tracks: the selected visible tracks of the
\* list; the copies are in no list, their address plays no part
BKE_tracking_clipboard_copy_tracks(tracksbase) ==
    SelectSeq(tracksbase,
              LAMBDA t : TRACK_SELECTED(t) /\ "HIDDEN" \notin t.flag)

\* the loop of BKE_tracking_clipboard_paste_tracks from the i-th track of
\* the clipboard; held are the addresses in use outside the list
RECURSIVE clipboard_paste_from(_, _, _, _)
clipboard_paste_from(tracksbase, clipboard_tracks, i, held) ==
    IF i > Len(clipboard_tracks) THEN tracksbase
    ELSE clipboard_paste_from(
             BKE_tracking_track_unique_name(
                 Append(tracksbase,
                        tracking_track_duplicate(
                            clipboard_tracks[i],
                            FreshAddr(held \cup ListAddrs(tracksbase)))),
                 Len(tracksbase) + 1),
             clipboard_tracks, i + 1, held)

\* BKE_tracking_clipboard_paste_tracks
BKE_tracking_clipboard_paste_tracks(tracksbase, clipboard_tracks, held) ==
    clipboard_paste_from(tracksbase, clipboard_tracks, 1, held)


(***************************************************************************)
(* Tracks map (tracking.c, "Tracks map" section).  A TracksMap is [null,   *)
(* object_name, is_camera, num_tracks, tracks, customdata, hash]: tracks   *)
(* is the array of snapshot tracks, customdata[a] the TrackContext of      *)
(* tracks[a], and hash[a] the pointer the hash holds for &tracks[a].       *)
(***************************************************************************)
NoTracksMap ==
    [null |-> TRUE, object_name |-> TrackName("", 0), is_camera |-> FALSE,
     num_tracks |-> 0, tracks |-> <<>>, customdata |-> <<>>, hash |-> <<>>]

\* tracks_map_new
tracks_map_new(object_name, is_camera, num_tracks) ==
    [null |-> FALSE, object_name |-> object_name, is_camera |-> is_camera,
     num_tracks |-> num_tracks, tracks |-> <<>>, customdata |-> <<>>,
     hash |-> <<>>]

\* tracks_map_get_size
tracks_map_get_size(map) == map.num_tracks

\* tracks_map_insert: the track is copied to the next slot of the array and
\* the hash maps the slot to the track
tracks_map_insert(map, t, customdata) ==
    [map EXCEPT !.tracks = Append(@, [t EXCEPT !.addr = NULL]),
                !.customdata = Append(@, customdata),
                !.hash = Append(@, t.addr)]

HashAddrs(map) == {map.hash[a] : a \in 1..Len(map.hash)}

\* the search of tracks_map_merge for old in old_tracks: the index of cur,
\* 0 when the loop ends with cur NULL
merge_find(old_tracks, old) ==
    IF old \in ListAddrs(old_tracks)
    THEN CHOOSE k \in 1..Len(old_tracks) :
             /\ old_tracks[k].addr = old
             /\ \A j \in 1..(k - 1) : old_tracks[j].addr # old
    ELSE 0

\* a mutant of merge_reuse_flags: the copy keeps the flags of the snapshot
merge_reuse_no_flags(t, old_tracks, k) == t

\* the flags tracks_map_merge takes over from the original cur, the k-th
\* track of old_tracks
merge_reuse_flags(t, old_tracks, k) ==
    IF k = 0 THEN t
    ELSE [t EXCEPT !.flag = old_tracks[k].flag,
                   !.pat_flag = old_tracks[k].pat_flag,
                   !.search_flag = old_tracks[k].search_flag]

\* the address tracking_track_duplicate gets in tracks_map_merge: the block
\* of the original freed just before (reuse), or one that nothing holds
merge_new_addr(st, a, k, reuse) ==
    IF reuse /\ k # 0 THEN st.map.hash[a]
    ELSE FreshAddr(st.held \cup ListAddrs(st.old_tracks) \cup ListAddrs(st.tracks)
                   \cup HashAddrs(st.map) \cup {st.act_track, st.rot_track})

\* one iteration of the first loop of tracks_map_merge on snapshot track a,
\* whose original is the k-th track of old_tracks (k = 0: not found) and
\* whose copy is allocated at addr
merge_iteration(st, a, k, act_track, rot_track, addr) ==
    [st EXCEPT
        !.old_tracks = IF k = 0 THEN @ ELSE RemoveAt(@, k),
        !.tracks = Append(@, tracking_track_duplicate(
                                 merge_reuse_flags(st.map.tracks[a],
                                                   st.old_tracks, k), addr)),
        !.map.tracks[a] = merge_reuse_flags(@, st.old_tracks, k),
        !.map.hash[a] = addr,
        !.act_track = IF k # 0 /\ st.old_tracks[k].addr = act_track
                      THEN addr ELSE @,
        !.rot_track = IF k # 0 /\ st.old_tracks[k].addr = rot_track
                      THEN addr ELSE @]

merge_iteration_at(st, a, k, act_track, rot_track, reuse) ==
    merge_iteration(st, a, k, act_track, rot_track,
                    merge_new_addr(st, a, k, reuse))

\* the first loop of tracks_map_merge, from snapshot track a on
RECURSIVE merge_operating(_, _, _, _, _)
merge_operating(st, a, act_track, rot_track, reuse) ==
    IF a > st.map.num_tracks THEN st
    ELSE merge_operating(
             merge_iteration_at(st, a,
                                merge_find(st.old_tracks, st.map.hash[a]),
                                act_track, rot_track, reuse),
             a + 1, act_track, rot_track, reuse)

\* the last loop of tracks_map_merge: the copies go to the tail of
\* new_tracks one by one, each given a unique name there
RECURSIVE merge_move_operating(_, _, _)
merge_move_operating(new_tracks, tracks, i) ==
    IF i > Len(tracks) THEN new_tracks
    ELSE merge_move_operating(
             BLI_uniquename(Append(new_tracks, tracks[i]), Len(new_tracks) + 1),
             tracks, i + 1)

\* the list tracks_map_merge works on: [tracking, l]; the object of a map
\* that is not the camera's is looked up by name and made when there is none
merge_old_tracks(map, tracking) ==
    IF map.is_camera THEN [tracking |-> tracking, l |-> 0]
    ELSE IF BKE_tracking_object_get_named(tracking, map.object_name) # 0
    THEN [tracking |-> tracking,
          l |-> BKE_tracking_object_get_named(tracking, map.object_name)]
    ELSE [tracking |-> BKE_tracking_object_add(tracking, map.object_name),
          l |-> Len(tracking.objects) + 1]

\* tracks_map_merge once the loops are done: *old_tracks = new_tracks
merge_store(st, tracking, l) ==
    [map |-> st.map,
     tracking |-> [SetList(tracking, l,
                           merge_move_operating(st.old_tracks, st.tracks, 1))
                   EXCEPT !.act_track = st.act_track,
                          !.rot_track = st.rot_track]]

\* tracks_map_merge on the list o = [tracking, l]
merge_on(map, o, act_track, rot_track, reuse) ==
    merge_store(
        merge_operating(
            [old_tracks |-> ListOf(o.tracking, o.l), tracks |-> <<>>,
             map |-> map, act_track |-> o.tracking.act_track,
             rot_track |-> o.tracking.rot_track,
             held |-> UNION {ListAddrs(ListOf(o.tracking, j)) :
                                j \in Lists(o.tracking) \ {o.l}}],
            1, act_track, rot_track, reuse),
        o.tracking, o.l)

\* tracks_map_merge: [map, tracking]
tracks_map_merge(map, tracking, reuse) ==
    merge_on(map, merge_old_tracks(map, tracking),
             BKE_tracking_track_get_active(tracking), tracking.rot_track, reuse)


(***************************************************************************)
(* 2D tracking (tracking.c, "2D tracking" section).  A                     *)
(* MovieTrackingContext is [backwards, framenr, sync_frame, first_time,    *)
(* frames, tracks_map], framenr being user.framenr; a TrackContext is      *)
(* [search_area], TRUE when the search area of the reference is there.     *)
(* What the image reading and the tracker of libmv give is an input of the *)
(* step: dest, whether the destination frame could be read, and for each   *)
(* track res = [reference, tracked, pos]: whether the reference frame      *)
(* could be read, whether the tracker succeeded, and where it put the      *)
(* marker.  Frames are FrameSize pixels wide and high and a coordinate is  *)
(* a number of pixels.                                                     *)
(***************************************************************************)
NoContext ==
    [backwards |-> FALSE, framenr |-> 0, sync_frame |-> 0,
     first_time |-> FALSE, frames |-> 0, tracks_map |-> NoTracksMap]

\* BKE_movieclip_remap_scene_to_clip_frame, for a clip starting at scene
\* frame ClipStartFrame
BKE_movieclip_remap_scene_to_clip_frame(framenr) == framenr - ClipStartFrame + 1

\* a mutant of context_new_selected: a locked or hidden track counts
context_new_selected_only(t) == TRACK_SELECTED(t)

\* the test of BKE_tracking_context_new on the flags of a track
context_new_selected(t) ==
    TRACK_SELECTED(t) /\ t.flag \cap {"LOCKED", "HIDDEN"} = {}

\* the test of BKE_tracking_context_new on the marker g that
\* BKE_tracking_marker_get returned: g is dereferenced without a NULL test
context_new_marker(g) ==
    [fault |-> g.null,
     take |-> ~g.null /\ "DISABLED" \notin g.t.markers[g.idx + 1].flag,
     t |-> g.t]

\* the body of the loops of BKE_tracking_context_new: [fault, take, t]
context_new_track(t, framenr) ==
    IF context_new_selected(t)
    THEN context_new_marker(BKE_tracking_marker_get(t, framenr))
    ELSE [fault |-> FALSE, take |-> FALSE, t |-> t]

\* the second loop of BKE_tracking_context_new, from track i on
RECURSIVE context_new_insert(_, _, _)
context_new_insert(map, looked, i) ==
    IF i > Len(looked) THEN map
    ELSE context_new_insert(
             IF looked[i].take
             THEN tracks_map_insert(map, looked[i].t, [search_area |-> FALSE])
             ELSE map,
             looked, i + 1)

\* the tracks map BKE_tracking_context_new makes: NULL when no track counts
context_new_map(object, looked, num_tracks) ==
    IF num_tracks = 0 THEN NoTracksMap
    ELSE context_new_insert(
             tracks_map_new(object.name, "CAMERA" \in object.flag, num_tracks),
             looked, 1)

\* BKE_tracking_context_new once the tracks of the list l are looked at
context_new_of(tracking, l, looked, framenr, backwards) ==
    [fault |-> \E i \in 1..Len(looked) : looked[i].fault,
     tracking |-> SetList(tracking, l, [i \in 1..Len(looked) |-> looked[i].t]),
     context |->
        [backwards |-> backwards, framenr |-> framenr, sync_frame |-> framenr,
         first_time |-> TRUE, frames |-> 0,
         tracks_map |->
            context_new_map(
                tracking.objects[BKE_tracking_object_get_active(tracking)],
                looked,
                Cardinality({i \in 1..Len(looked) : looked[i].take}))]]

context_new_looked(tracksbase, framenr) ==
    [i \in 1..Len(tracksbase) |-> context_new_track(tracksbase[i], framenr)]

\* BKE_tracking_context_new: [fault, tracking, context]
BKE_tracking_context_new(tracking, framenr, backwards) ==
    context_new_of(
        tracking, BKE_tracking_get_active_tracks(tracking),
        context_new_looked(
            ListOf(tracking, BKE_tracking_get_active_tracks(tracking)),
            BKE_movieclip_remap_scene_to_clip_frame(framenr)),
        framenr, backwards)

\* the two margins of tracking_check_marker_margin, doubled
check_marker_margin2(t, pat, frame_width, frame_height) ==
    <<max_ff(max_ff(pat.max[1] - pat.min[1], pat.max[2] - pat.min[2]),
             (2 * t.margin * FrameSize) \div frame_width),
      max_ff(max_ff(pat.max[1] - pat.min[1], pat.max[2] - pat.min[2]),
             (2 * t.margin * FrameSize) \div frame_height)>>

\* a mutant of check_marker_inside: no marker is too close to a border
check_marker_inside_always(marker, margin2) == TRUE

check_marker_inside(marker, margin2) ==
    ~(\/ 2 * marker.pos[1] < margin2[1]
      \/ 2 * marker.pos[1] > 2 * FrameSize - margin2[1]
      \/ 2 * marker.pos[2] < margin2[2]
      \/ 2 * marker.pos[2] > 2 * FrameSize - margin2[2])

\* tracking_check_marker_margin
tracking_check_marker_margin(t, marker, frame_width, frame_height) ==
    check_marker_inside(
        marker,
        check_marker_margin2(t, BKE_tracking_marker_pattern_minmax(marker),
                             frame_width, frame_height))


\* a mutant of insert_new_tracked_close: the segment is not closed
insert_new_tracked_open(r, new_marker, backwards) ==
    IF r.fault THEN r
    ELSE [fault |-> FALSE, t |-> BKE_tracking_marker_insert(r.t, new_marker)]

\* the tracked branch of tracking_insert_new_marker after its first
\* statement gave r = [fault, t]: the tracked marker is inserted and the
\* segment closed by a disabled marker
insert_new_tracked_close(r, new_marker, backwards) ==
    IF r.fault THEN r
    ELSE tracking_marker_insert_disabled(
             BKE_tracking_marker_insert(r.t, new_marker), new_marker,
             backwards, FALSE)

\* the tracked branch of tracking_insert_new_marker
insert_new_tracked(context, t, old_marker, new_marker) ==
    insert_new_tracked_close(
        IF context.first_time
        THEN tracking_marker_insert_disabled(t, old_marker,
                                             ~context.backwards, FALSE)
        ELSE [fault |-> FALSE, t |-> t],
        new_marker, context.backwards)

\* tracking_insert_new_marker: [fault, t].  pos is where
\* set_marker_coords_from_tracking puts the marker; the corners, which are
\* relative to pos, are those of old_marker when the pattern only moved.
tracking_insert_new_marker(context, t, old_marker, curfra, tracked, pos) ==
    IF tracked
    THEN insert_new_tracked(
             context, t, old_marker,
             [old_marker EXCEPT
                 !.pos = pos,
                 !.flag = @ \cup {"TRACKED"},
                 !.framenr = curfra + (IF context.backwards THEN -1 ELSE 1)])
    ELSE [fault |-> FALSE,
          t |-> BKE_tracking_marker_insert(
                    t,
                    [old_marker EXCEPT
                        !.framenr = curfra + (IF context.backwards THEN -1 ELSE 1),
                        !.flag = @ \cup {"DISABLED"}])]

\* what one iteration of the loop of BKE_tracking_context_step leaves:
\* [fault, t, customdata, ok, outcome]
step_left(r, customdata, ok, outcome) ==
    [fault |-> r.fault, t |-> r.t, customdata |-> customdata, ok |-> ok,
     outcome |-> outcome]

\* the end of the loop body: the marker is inserted and ok set
step_insert(context, t, marker, customdata, curfra, tracked, pos) ==
    step_left(
        tracking_insert_new_marker(context, t, marker, curfra, tracked, pos),
        customdata, TRUE, IF tracked THEN "tracked" ELSE "failed")

\* need_readjust
step_need_readjust(context, t) ==
    IF t.pattern_match = "KEYFRAME" THEN context.first_time ELSE TRUE

\* the loop body on an enabled marker of the current frame.  The tracker
\* fails without a search area of the reference
step_enabled(context, t, marker, customdata, curfra, res) ==
    IF ~tracking_check_marker_margin(t, marker, FrameSize, FrameSize)
    THEN step_insert(context, t, marker, customdata, curfra, FALSE, res.pos)
    ELSE IF ~step_need_readjust(context, t)
    THEN step_insert(context, t, marker, customdata, curfra,
                     customdata.search_area /\ res.tracked, res.pos)
    ELSE IF ~res.reference
    THEN step_left([fault |-> FALSE, t |-> t], customdata, FALSE, "noreference")
    ELSE step_insert(context, t, marker, [search_area |-> TRUE], curfra,
                     res.tracked, res.pos)

\* the loop body once the marker e of the current frame is looked up
step_marker(context, e, customdata, curfra, res) ==
    IF e.fault \/ e.null
    THEN step_left(e, customdata, FALSE, "skipped")
    ELSE IF "DISABLED" \in e.t.markers[e.idx + 1].flag
    THEN step_left(e, customdata, FALSE, "skipped")
    ELSE step_enabled(context, e.t, e.t.markers[e.idx + 1], customdata,
                      curfra, res)

\* the loop body of BKE_tracking_context_step on track a of the map
step_track(context, map, a, curfra, res) ==
    step_marker(context, BKE_tracking_marker_get_exact(map.tracks[a], curfra),
                map.customdata[a], curfra, res)

\* the loop of BKE_tracking_context_step: every track is worked on alone,
\* the insertion is in a critical section
step_tracks(context, curfra, res) ==
    [a \in 1..context.tracks_map.num_tracks |->
        step_track(context, context.tracks_map, a, curfra, res[a])]

\* BKE_tracking_context_step once the loop is done: [fault, ok, outcome,
\* context]
step_end(context, done) ==
    [fault |-> \E a \in 1..Len(done) : done[a].fault,
     ok |-> \E a \in 1..Len(done) : done[a].ok,
     outcome |-> [a \in 1..Len(done) |-> done[a].outcome],
     context |->
        [context EXCEPT
            !.framenr = @ + (IF context.backwards THEN -1 ELSE 1),
            !.tracks_map.tracks = [a \in 1..Len(done) |-> done[a].t],
            !.tracks_map.customdata = [a \in 1..Len(done) |-> done[a].customdata],
            !.first_time = FALSE,
            !.frames = @ + 1]]

\* BKE_tracking_context_step: the size of a NULL map is read without a test
BKE_tracking_context_step(context, dest, res) ==
    IF context.tracks_map.null
    THEN [fault |-> TRUE, ok |-> FALSE, outcome |-> <<>>, context |-> context]
    ELSE IF tracks_map_get_size(context.tracks_map) = 0
    THEN [fault |-> FALSE, ok |-> FALSE, outcome |-> <<>>, context |-> context]
    ELSE IF ~dest
    THEN [fault |-> FALSE, ok |-> FALSE, outcome |-> <<>>,
          context |-> [context EXCEPT
                          !.framenr = @ + (IF context.backwards THEN -1 ELSE 1)]]
    ELSE step_end(
             context,
             step_tracks(context,
                         BKE_movieclip_remap_scene_to_clip_frame(context.framenr),
                         res))

\* BKE_tracking_context_sync once the merge is done
context_sync_merged(context, m) ==
    [fault |-> FALSE, tracking |-> m.tracking,
     context |-> [context EXCEPT
                     !.tracks_map = m.map,
                     !.sync_frame = IF context.backwards
                                    THEN context.framenr + 1
                                    ELSE context.framenr - 1]]

\* BKE_tracking_context_sync: [fault, tracking, context]; a NULL map is
\* dereferenced by the merge
BKE_tracking_context_sync(context, tracking, reuse) ==
    IF context.tracks_map.null
    THEN [fault |-> TRUE, tracking |-> tracking, context |-> context]
    ELSE context_sync_merged(
             context, tracks_map_merge(context.tracks_map, tracking, reuse))


(***************************************************************************)
(* Reconstruction (tracking.c, "Reconstruction" section).  A 4x4 matrix is *)
(* modelled by a rigid motion of a line, x -> a * x + b with a of 1 and    *)
(* -1, a bundle position by a point of the line; the motions do not        *)
(* commute.  A MovieTrackingReconstruction is [cameras, camnr, error,      *)
(* flag, last_camera], a camera [framenr, mat, error].  What the solver of *)
(* libmv gives is [points, cameras, error]: a point [has, pos, error] for  *)
(* each track number and a camera [has, mat, error] for each frame.        *)
(***************************************************************************)
INT_MAX == 2147483647
INT_MIN == (-2147483647) - 1

unit_m4 == [a |-> 1, b |-> 0]

\* mul_m4_m4m4(R, A, B): R = A B, the motion B followed by the motion A
mul_m4_m4m4(A, B) == [a |-> A.a * B.a, b |-> A.a * B.b + A.b]

invert_m4_m4(M) == [a |-> M.a, b |-> -(M.a * M.b)]

mul_v3_m4v3(M, v) == M.a * v + M.b

NoPoint == [has |-> FALSE, pos |-> 0, error |-> 0]
NoPose == [has |-> FALSE, mat |-> unit_m4, error |-> 0]
NoLibmv == [points |-> <<>>, cameras |-> <<>>, error |-> 0]

NoReconstruction ==
    [cameras |-> <<>>, camnr |-> 0, error |-> 0, flag |-> {}, last_camera |-> 0]

\* libmv_reporojectionPointForTrack and libmv_reporojectionErrorForTrack
libmv_point(libmv, tracknr) ==
    IF tracknr + 1 <= Len(libmv.points) THEN libmv.points[tracknr + 1]
    ELSE NoPoint

\* libmv_reporojectionCameraForImage and libmv_reporojectionErrorForImage
libmv_camera(libmv, a) ==
    IF a \in DOMAIN libmv.cameras THEN libmv.cameras[a] ELSE NoPose

\* the body of the first loop of reconstruct_retrieve_libmv_tracks
retrieve_bundle(t, point) ==
    IF point.has
    THEN [t EXCEPT !.bundle_pos = point.pos,
                   !.flag = @ \cup {"HAS_BUNDLE"},
                   !.error = point.error]
    ELSE [t EXCEPT !.flag = @ \ {"HAS_BUNDLE"}]

retrieve_bundles(tracksbase, libmv) ==
    [i \in 1..Len(tracksbase) |->
        retrieve_bundle(tracksbase[i], libmv_point(libmv, i - 1))]

\* a mutant of retrieve_camera_mat: the two matrices are multiplied the
\* other way round
retrieve_camera_mat_swapped(st, mat) ==
    IF ~st.origin_set THEN unit_m4 ELSE mul_m4_m4m4(mat, st.imat)

\* the matrix reconstruct_retrieve_libmv_tracks stores for a camera
retrieve_camera_mat(st, mat) ==
    IF ~st.origin_set THEN unit_m4 ELSE mul_m4_m4m4(st.imat, mat)

\* the body of the loop over the frames, st being [reconstructed, imat,
\* origin_set, ok]
retrieve_camera(st, a, cam) ==
    IF cam.has
    THEN [reconstructed |->
              Append(st.reconstructed,
                     [framenr |-> a, mat |-> retrieve_camera_mat(st, cam.mat),
                      error |-> cam.error]),
          imat |-> IF ~st.origin_set THEN invert_m4_m4(cam.mat) ELSE st.imat,
          origin_set |-> TRUE,
          ok |-> st.ok]
    ELSE [st EXCEPT !.ok = FALSE]

RECURSIVE retrieve_cameras(_, _, _, _)
retrieve_cameras(st, a, efra, libmv) ==
    IF a > efra THEN st
    ELSE retrieve_cameras(retrieve_camera(st, a, libmv_camera(libmv, a)),
                          a + 1, efra, libmv)

\* the last loop of reconstruct_retrieve_libmv_tracks
retrieve_origin(tracksbase, st) ==
    IF st.origin_set
    THEN [i \in 1..Len(tracksbase) |->
             IF "HAS_BUNDLE" \in tracksbase[i].flag
             THEN [tracksbase[i] EXCEPT
                      !.bundle_pos = mul_v3_m4v3(st.imat, @)]
             ELSE tracksbase[i]]
    ELSE tracksbase

retrieve_store(reconstruction, tracksbase, st) ==
    [ok |-> st.ok,
     reconstruction |-> [reconstruction EXCEPT
                            !.camnr = Len(st.reconstructed),
                            !.cameras = st.reconstructed],
     tracksbase |-> retrieve_origin(tracksbase, st)]

\* reconstruct_retrieve_libmv_tracks on the list of the object of the
\* context and its reconstruction: [ok, reconstruction, tracksbase]
reconstruct_retrieve_libmv_tracks(context, tracksbase, reconstruction) ==
    retrieve_store(
        reconstruction,
        retrieve_bundles(tracksbase, context.reconstruction),
        retrieve_cameras(
            [reconstructed |-> <<>>, imat |-> unit_m4, origin_set |-> FALSE,
             ok |-> \A i \in 1..Len(tracksbase) :
                        libmv_point(context.reconstruction, i - 1).has],
            context.sfra, context.efra, context.reconstruction))

\* the search of reconstructed_camera_index_get from camera a in direction
\* d: [a, found], a the index returned, -1 for none, found when the loop
\* came on the frame itself
RECURSIVE camera_index_scan(_, _, _, _, _)
camera_index_scan(cameras, a, d, framenr, nearest) ==
    IF ~(a >= 0 /\ a < Len(cameras)) THEN [a |-> -1, found |-> FALSE]
    ELSE IF d > 0 /\ cameras[a + 1].framenr > framenr
    THEN [a |-> IF nearest THEN a - 1 ELSE -1, found |-> FALSE]
    ELSE IF d < 0 /\ cameras[a + 1].framenr < framenr
    THEN [a |-> IF nearest THEN a ELSE -1, found |-> FALSE]
    ELSE IF cameras[a + 1].framenr = framenr
    THEN [a |-> a, found |-> TRUE]
    ELSE camera_index_scan(cameras, a + d, d, framenr, nearest)

\* where the search starts: last_camera when it is an index of the array
camera_index_start(reconstruction) ==
    IF reconstruction.last_camera < reconstruction.camnr
    THEN reconstruction.last_camera ELSE 0

camera_index_from(reconstruction, a, framenr, nearest) ==
    camera_index_scan(
        reconstruction.cameras, a,
        IF reconstruction.cameras[a + 1].framenr >= framenr THEN -1 ELSE 1,
        framenr, nearest)

\* reconstructed_camera_index_get: [a, found]; last_camera is set to a
\* when found
reconstructed_camera_index_get(reconstruction, framenr, nearest) ==
    IF reconstruction.camnr = 0 THEN [a |-> -1, found |-> FALSE]
    ELSE IF framenr < reconstruction.cameras[1].framenr
    THEN [a |-> IF nearest THEN 0 ELSE -1, found |-> FALSE]
    ELSE IF framenr > reconstruction.cameras[reconstruction.camnr].framenr
    THEN [a |-> IF nearest THEN reconstruction.camnr - 1 ELSE -1,
          found |-> FALSE]
    ELSE camera_index_from(reconstruction, camera_index_start(reconstruction),
                           framenr, nearest)

\* what blend_m4_m4m4 gives for the matrices A and B and the factor
\* num / den, and what copy_m4_m4 gives, as [from, to, t]
blend_m4_m4m4(A, B, num, den) == [from |-> A, to |-> B, t |-> <<num, den>>]
copy_m4_m4(A) == [from |-> A, to |-> A, t |-> <<0, 1>>]

\* the matrix BKE_tracking_camera_get_reconstructed_interpolate gives for
\* the index a that reconstructed_camera_index_get returned
camera_interpolate_mat(cameras, a, framenr) ==
    IF cameras[a + 1].framenr # framenr /\ a > 0 /\ a < Len(cameras) - 1
    THEN blend_m4_m4m4(cameras[a + 1].mat, cameras[a + 2].mat,
                       framenr - cameras[a + 1].framenr,
                       cameras[a + 2].framenr - cameras[a + 1].framenr)
    ELSE copy_m4_m4(cameras[a + 1].mat)

camera_interpolate_at(reconstruction, is_camera, i, framenr) ==
    [mat |-> IF i.a = -1 THEN copy_m4_m4(unit_m4)
             ELSE camera_interpolate_mat(reconstruction.cameras, i.a, framenr),
     scaled |-> i.a # -1 /\ ~is_camera,
     reconstruction |-> IF i.found
                        THEN [reconstruction EXCEPT !.last_camera = i.a]
                        ELSE reconstruction]

\* BKE_tracking_camera_get_reconstructed_interpolate: [mat, scaled,
\* reconstruction], scaled when reconstructed_camera_scale_set has
\* multiplied the matrix by the scale of the object
BKE_tracking_camera_get_reconstructed_interpolate(reconstruction, is_camera, framenr) ==
    camera_interpolate_at(
        reconstruction, is_camera,
        reconstructed_camera_index_get(reconstruction, framenr, TRUE), framenr)

NoQuery == [framenr |-> 0, mat |-> copy_m4_m4(unit_m4), scaled |-> FALSE]

\* the number of tracks BKE_tracking_reconstruction_check asks for
RECONSTRUCT_MIN_TRACKS == 8

\* reconstruct_count_tracks_on_both_keyframes
reconstruct_count_tracks_on_both_keyframes(tracksbase, object) ==
    Cardinality(
        {i \in 1..Len(tracksbase) :
            /\ BKE_tracking_track_has_enabled_marker_at_frame(
                   tracksbase[i], object.keyframe1).has
            /\ BKE_tracking_track_has_enabled_marker_at_frame(
                   tracksbase[i], object.keyframe2).has})

\* a mutant of BKE_tracking_reconstruction_check: the tracks are not counted
reconstruction_check_uncounted(settings, tracksbase, object) ==
    "MODAL" \in settings.motion_flag \/ settings.with_libmv

\* BKE_tracking_reconstruction_check: TRUE when the reconstruction may
\* start; settings is [motion_flag, reconstruction_flag, with_libmv], the
\* last being whether the build has WITH_LIBMV
BKE_tracking_reconstruction_check(settings, tracksbase, object) ==
    IF "MODAL" \in settings.motion_flag THEN TRUE
    ELSE IF /\ "USE_KEYFRAME_SELECTION" \notin settings.reconstruction_flag
            /\ reconstruct_count_tracks_on_both_keyframes(tracksbase, object)
                   < RECONSTRUCT_MIN_TRACKS
    THEN FALSE
    ELSE settings.with_libmv

min_ii(a, b) == IF a < b THEN a ELSE b
max_ii(a, b) == IF b < a THEN a ELSE b

\* "find first not-disabled marker": the index first ends on
RECURSIVE context_new_first(_, _)
context_new_first(t, first) ==
    IF first <= markersnr(t) - 1 /\ "DISABLED" \in t.markers[first + 1].flag
    THEN context_new_first(t, first + 1)
    ELSE first

\* "find last not-disabled marker": the index last ends on
RECURSIVE context_new_last(_, _)
context_new_last(t, lastidx) ==
    IF lastidx >= 0 /\ "DISABLED" \in t.markers[lastidx + 1].flag
    THEN context_new_last(t, lastidx - 1)
    ELSE lastidx

context_new_sfra(sfra, t, first) ==
    IF first < markersnr(t) - 1
    THEN min_ii(sfra, t.markers[first + 1].framenr)
    ELSE sfra

context_new_efra(efra, t, lastidx) ==
    IF lastidx >= 0 THEN max_ii(efra, t.markers[lastidx + 1].framenr)
    ELSE efra

\* the loop of BKE_tracking_reconstruction_context_new over the tracks, from
\* track i on; c is [sfra, efra, tracks_map]
RECURSIVE context_new_range(_, _, _)
context_new_range(c, tracksbase, i) ==
    IF i > Len(tracksbase) THEN c
    ELSE context_new_range(
             [sfra |-> context_new_sfra(
                           c.sfra, tracksbase[i],
                           context_new_first(tracksbase[i], 0)),
              efra |-> context_new_efra(
                           c.efra, tracksbase[i],
                           context_new_last(tracksbase[i],
                                            markersnr(tracksbase[i]) - 1)),
              tracks_map |-> tracks_map_insert(c.tracks_map, tracksbase[i],
                                               [search_area |-> FALSE])],
             tracksbase, i + 1)

reconstruction_context_of(settings, object, keyframe1, keyframe2, c) ==
    [object_name |-> object.name, is_camera |-> "CAMERA" \in object.flag,
     motion_flag |-> settings.motion_flag,
     select_keyframes |->
         "USE_KEYFRAME_SELECTION" \in settings.reconstruction_flag,
     tracks_map |-> c.tracks_map, sfra |-> c.sfra, efra |-> c.efra,
     keyframe1 |-> keyframe1, keyframe2 |-> keyframe2,
     reconstruction |-> NoLibmv, reprojection_error |-> 0]

\* BKE_tracking_reconstruction_context_new for the object whose tracks are
\* tracksbase, k1 and k2 being keyframe1 and keyframe2
BKE_tracking_reconstruction_context_new(settings, tracksbase, object, k1, k2) ==
    reconstruction_context_of(
        settings, object, k1, k2,
        context_new_range(
            [sfra |-> INT_MAX, efra |-> INT_MIN,
             tracks_map |-> tracks_map_new(object.name,
                                           "CAMERA" \in object.flag,
                                           Len(tracksbase))],
            tracksbase, 1))

NoReconstructContext ==
    reconstruction_context_of(
        [motion_flag |-> {}, reconstruction_flag |-> {}],
        [name |-> TrackName("", 0), flag |-> {}], 0, 0,
        [sfra |-> 0, efra |-> 0, tracks_map |-> NoTracksMap])

\* BKE_tracking_reconstruction_solve: the context with what the solver gave
BKE_tracking_reconstruction_solve(context, libmv, keyframe1, keyframe2) ==
    [context EXCEPT
        !.reconstruction = libmv,
        !.keyframe1 = IF context.select_keyframes
                         /\ "MODAL" \notin context.motion_flag
                      THEN keyframe1 ELSE @,
        !.keyframe2 = IF context.select_keyframes
                         /\ "MODAL" \notin context.motion_flag
                      THEN keyframe2 ELSE @,
        !.reprojection_error = libmv.error]

\* BKE_tracking_reconstruction_finish once the map is merged, the keyframes
\* of the object are updated and the error and the flag are set
reconstruction_finish_retrieved(m, l, object, r) ==
    [ok |-> r.ok,
     tracking |-> SetList(m.tracking, l, r.tracksbase),
     object |-> object,
     reconstruction |-> r.reconstruction,
     tracks_map |-> m.map]

reconstruction_finish_merged(context, m, l, object, reconstruction) ==
    reconstruction_finish_retrieved(
        m, l,
        IF context.select_keyframes
        THEN [object EXCEPT !.keyframe1 = context.keyframe1,
                            !.keyframe2 = context.keyframe2]
        ELSE object,
        reconstruct_retrieve_libmv_tracks(
            context, ListOf(m.tracking, l),
            [reconstruction EXCEPT
                !.error = context.reprojection_error,
                !.flag = @ \cup {"RECONSTRUCTED"}]))

\* BKE_tracking_reconstruction_finish for the object [keyframe1, keyframe2]
\* of the context and its reconstruction rec: [ok, tracking, object,
\* reconstruction, tracks_map]
BKE_tracking_reconstruction_finish(context, tracking, object, rec, reuse) ==
    reconstruction_finish_merged(
        context, tracks_map_merge(context.tracks_map, tracking, reuse),
        merge_old_tracks(context.tracks_map, tracking).l,
        object, rec)

\* nothing is solved
NoSolve ==
    [op |-> "none", ok |-> FALSE,
     settings |-> [motion_flag |-> {}, reconstruction_flag |-> {},
                   with_libmv |-> TRUE],
     object |-> [keyframe1 |-> 1, keyframe2 |-> 1],
     reconstruction |-> NoReconstruction,
     entry |-> NoReconstruction,
     context |-> NoReconstructContext,
     is_camera |-> TRUE,
     query |-> NoQuery]

(***************************************************************************)
(* Dopesheet (tracking.c, "Dopesheet functions" section).  The dopesheet   *)
(* of a clip is [flag, sort_method, channels, tot_channel,                 *)
(* coverage_segments]; its ok is the variable dopesheet_ok.  A channel is  *)
(* [track, name, tot_segment, max_segment, total_frames, segments], track  *)
(* the address of its track and segments the pairs <<start, end>> written  *)
(* to the array; a coverage segment is [coverage, start_frame, end_frame]. *)
(* An int is 32 bits wide: an operation on ints gives [v, ov], v the value *)
(* wrapped to 32 bits and ov TRUE when the exact value is out of range.    *)
(***************************************************************************)
NoDopesheet ==
    [flag |-> {}, sort_method |-> "NAME", channels |-> <<>>, tot_channel |-> 0,
     coverage_segments |-> <<>>]

\* a + b of two ints
add32(a, b) ==
    IF a >= 0 /\ b >= 0 /\ a > INT_MAX - b
    THEN [v |-> (a + INT_MIN) + (b + INT_MIN), ov |-> TRUE]
    ELSE IF a < 0 /\ b < 0 /\ a < INT_MIN - b
    THEN [v |-> (a - INT_MIN) + (b - INT_MIN), ov |-> TRUE]
    ELSE [v |-> a + b, ov |-> FALSE]

\* a - b of two ints, b above INT_MIN
sub32(a, b) == add32(a, -b)

\* the inner loop of tracking_dopesheet_channels_segments_calc: the index i
\* is left on
RECURSIVE segments_run(_, _, _)
segments_run(t, i, prev_fra) ==
    IF /\ i < markersnr(t)
       /\ t.markers[i + 1].framenr = prev_fra + 1
       /\ "DISABLED" \notin t.markers[i + 1].flag
    THEN segments_run(t, i + 1, t.markers[i + 1].framenr)
    ELSE i

\* the loop under "count", from index i on: what is added to tot_segment
RECURSIVE segments_count(_, _)
segments_count(t, i) ==
    IF i >= markersnr(t) THEN 0
    ELSE IF "DISABLED" \notin t.markers[i + 1].flag
    THEN 1 + segments_count(
                 t, segments_run(t, i + 1, t.markers[i + 1].framenr) + 1)
    ELSE segments_count(t, i + 1)

\* the loop under "create segments", from index i on: the pairs written to
\* the array, each with its len
RECURSIVE segments_create(_, _)
segments_create(t, i) ==
    IF i >= markersnr(t) THEN <<>>
    ELSE IF "DISABLED" \notin t.markers[i + 1].flag
    THEN <<[start |-> t.markers[i + 1].framenr,
            len |-> segments_run(t, i + 1, t.markers[i + 1].framenr) - (i + 1)]>>
         \o segments_create(
                t, segments_run(t, i + 1, t.markers[i + 1].framenr) + 1)
    ELSE segments_create(t, i + 1)

RECURSIVE segments_max(_, _)
segments_max(created, n) ==
    IF n = 0 THEN 0 ELSE max_ii(segments_max(created, n - 1), created[n].len)

RECURSIVE segments_total(_, _)
segments_total(created, n) ==
    IF n = 0 THEN 0 ELSE segments_total(created, n - 1) + created[n].len

\* tracking_dopesheet_channels_segments_calc: nothing is allocated nor
\* written when no segment is counted
tracking_dopesheet_channels_segments_calc(channel, t) ==
    IF segments_count(t, 0) = 0
    THEN [channel EXCEPT !.tot_segment = 0, !.max_segment = 0,
                         !.total_frames = 0]
    ELSE [channel EXCEPT
             !.tot_segment = segments_count(t, 0),
             !.segments =
                 [k \in 1..Len(segments_create(t, 0)) |->
                     <<segments_create(t, 0)[k].start,
                       segments_create(t, 0)[k].start
                           + segments_create(t, 0)[k].len>>],
             !.max_segment =
                 segments_max(segments_create(t, 0), Len(segments_create(t, 0))),
             !.total_frames =
                 segments_total(segments_create(t, 0), Len(segments_create(t, 0)))]

\* the two tests of tracking_dopesheet_channels_calc on a track
channels_calc_shown(dopesheet, t) ==
    /\ "SHOW_HIDDEN" \in dopesheet.flag \/ "HIDDEN" \notin t.flag
    /\ "SELECTED_ONLY" \notin dopesheet.flag \/ TRACK_SELECTED(t)

\* tracking_dopesheet_channels_calc over the tracks from i on; the clips of
\* the model are not reconstructed and the channel has the name of its track
RECURSIVE tracking_dopesheet_channels_calc(_, _, _)
tracking_dopesheet_channels_calc(dopesheet, tracksbase, i) ==
    IF i > Len(tracksbase) THEN dopesheet
    ELSE tracking_dopesheet_channels_calc(
             IF channels_calc_shown(dopesheet, tracksbase[i])
             THEN [dopesheet EXCEPT
                      !.channels = Append(@,
                          tracking_dopesheet_channels_segments_calc(
                              [track |-> tracksbase[i].addr,
                               name |-> tracksbase[i].name,
                               error |-> tracksbase[i].error,
                               tot_segment |-> 0, max_segment |-> 0,
                               total_frames |-> 0, segments |-> <<>>],
                              tracksbase[i])),
                      !.tot_channel = @ + 1]
             ELSE dopesheet,
             tracksbase, i + 1)

\* BLI_strcasecmp(a, b) > 0 on two names of one base: "Track" is before
\* "Track.001", and the numbers have the digits of their order
strcasecmp_gt(a, b) == a.base = b.base /\ a.nr > b.nr

\* the comparators of the channels: cmp(a, b) is 1
channels_sort_cmp(sort_method, inverse, a, b) ==
    IF sort_method = "NAME"
    THEN IF inverse THEN ~strcasecmp_gt(a.name, b.name)
         ELSE strcasecmp_gt(a.name, b.name)
    ELSE IF sort_method = "LONGEST"
    THEN IF inverse THEN ~(a.max_segment > b.max_segment)
         ELSE a.max_segment > b.max_segment
    ELSE IF sort_method = "TOTAL"
    THEN IF inverse THEN ~(a.total_frames > b.total_frames)
         ELSE a.total_frames > b.total_frames
    ELSE IF inverse THEN a.error < b.error
         ELSE a.error > b.error

\* the walk of BLI_sortlist back from previous: the number of elements the
\* current one is put after
RECURSIVE sortlist_place(_, _, _, _, _)
sortlist_place(list, previous, current, sort_method, inverse) ==
    IF previous > 0
       /\ channels_sort_cmp(sort_method, inverse, list[previous], current)
    THEN sortlist_place(list, previous - 1, current, sort_method, inverse)
    ELSE previous

\* BLI_sortlist: each element from the second on is unlinked and put back
\* after the nearest element before it that the comparator does not put
\* after it
RECURSIVE BLI_sortlist(_, _, _, _)
BLI_sortlist(list, k, sort_method, inverse) ==
    IF k > Len(list) THEN list
    ELSE BLI_sortlist(
             InsertAt(RemoveAt(list, k),
                      sortlist_place(list, k - 1, list[k], sort_method, inverse)
                          + 1,
                      list[k]),
             k + 1, sort_method, inverse)

\* tracking_dopesheet_channels_sort
tracking_dopesheet_channels_sort(dopesheet, sort_method, inverse) ==
    [dopesheet EXCEPT
        !.channels = BLI_sortlist(@, 2, sort_method, inverse)]

coverage_from_count(count) ==
    IF count < 8 THEN "BAD"
    ELSE IF count < 16 THEN "ACCEPTABLE"
    ELSE "OK"

\* "find frame boundaries", over the tracks from i on: the first marker of
\* a track without markers is read from a NULL array
RECURSIVE coverage_boundaries(_, _, _)
coverage_boundaries(tracksbase, i, b) ==
    IF i > Len(tracksbase) THEN b
    ELSE IF markersnr(tracksbase[i]) = 0 THEN [b EXCEPT !.fault = TRUE]
    ELSE coverage_boundaries(
             tracksbase, i + 1,
             [b EXCEPT
                 !.start_frame = min_ii(@, tracksbase[i].markers[1].framenr),
                 !.end_frame =
                     max_ii(@, tracksbase[i].markers[
                                   markersnr(tracksbase[i])].framenr)])

\* per_frame_counter[i] after "find per-frame markers count"
per_frame_counter(tracksbase, start_frame, i) ==
    Cardinality(
        {m \in UNION {{<<k, a>> : a \in 1..markersnr(tracksbase[k])} :
                         k \in 1..Len(tracksbase)} :
            /\ "DISABLED" \notin tracksbase[m[1]].markers[m[2]].flag
            /\ sub32(tracksbase[m[1]].markers[m[2]].framenr, start_frame).v = i})

\* the coverage of frame i in the loop of tracking_dopesheet_calc_coverage
coverage_of_frame(tracksbase, start_frame, frames, i) ==
    IF i = frames - 1 /\ per_frame_counter(tracksbase, start_frame, i) = 0
    THEN "OK"
    ELSE coverage_from_count(per_frame_counter(tracksbase, start_frame, i))

\* end_segment_frame of the segment closed at i: i - 1 + start_frame, and
\* one more when that is last_segment_frame
coverage_end_segment_frame(start_frame, i, last_segment_frame) ==
    IF add32(i - 1, start_frame).v = last_segment_frame
    THEN [v |-> add32(add32(i - 1, start_frame).v, 1).v,
          ov |-> add32(i - 1, start_frame).ov
                     \/ add32(add32(i - 1, start_frame).v, 1).ov]
    ELSE add32(i - 1, start_frame)

\* the loop of tracking_dopesheet_calc_coverage from i on; c is
\* [prev_coverage, last_segment_frame, segments, ov]
RECURSIVE coverage_loop(_, _, _, _, _)
coverage_loop(tracksbase, start_frame, frames, i, c) ==
    IF i >= frames THEN c
    ELSE coverage_loop(
             tracksbase, start_frame, frames, i + 1,
             IF coverage_of_frame(tracksbase, start_frame, frames, i)
                    # c.prev_coverage
                \/ i = frames - 1
             THEN [prev_coverage |->
                       coverage_of_frame(tracksbase, start_frame, frames, i),
                   last_segment_frame |->
                       coverage_end_segment_frame(
                           start_frame, i, c.last_segment_frame).v,
                   segments |->
                       Append(c.segments,
                              [coverage |-> c.prev_coverage,
                               start_frame |-> c.last_segment_frame,
                               end_frame |->
                                   coverage_end_segment_frame(
                                       start_frame, i, c.last_segment_frame).v]),
                   ov |-> c.ov \/ coverage_end_segment_frame(
                                      start_frame, i, c.last_segment_frame).ov]
             ELSE [c EXCEPT
                      !.prev_coverage =
                          coverage_of_frame(tracksbase, start_frame, frames, i)])

\* frames = end_frame - start_frame + 1
coverage_frames(b) ==
    [v |-> add32(sub32(b.end_frame, b.start_frame).v, 1).v,
     ov |-> sub32(b.end_frame, b.start_frame).ov
                \/ add32(sub32(b.end_frame, b.start_frame).v, 1).ov]

\* tracking_dopesheet_calc_coverage once the boundaries b are found:
\* per_frame_counter has frames elements and element 0 is read
coverage_of(tracksbase, b) ==
    IF b.fault \/ coverage_frames(b).v <= 0
    THEN [fault |-> TRUE, ov |-> coverage_frames(b).ov, segments |-> <<>>]
    ELSE [fault |-> FALSE] @@
         [s \in {"ov", "segments"} |->
             coverage_loop(
                 tracksbase, b.start_frame, coverage_frames(b).v, 1,
                 [prev_coverage |->
                      IF per_frame_counter(tracksbase, b.start_frame, 0) = 0
                      THEN "OK"
                      ELSE coverage_from_count(
                               per_frame_counter(tracksbase, b.start_frame, 0)),
                  last_segment_frame |-> b.start_frame,
                  segments |-> <<>>,
                  ov |-> coverage_frames(b).ov])[s]]

\* tracking_dopesheet_calc_coverage: [fault, ov, segments], the segments
\* added to coverage_segments
tracking_dopesheet_calc_coverage(tracksbase) ==
    coverage_of(
        tracksbase,
        coverage_boundaries(
            tracksbase, 1,
            [fault |-> FALSE, start_frame |-> INT_MAX, end_frame |-> -INT_MAX]))

\* tracking_dopesheet_free
tracking_dopesheet_free(dopesheet) ==
    [dopesheet EXCEPT !.channels = <<>>, !.coverage_segments = <<>>,
                      !.tot_channel = 0]

\* what BKE_tracking_dopesheet_update makes of the dopesheet when ok is not
\* set, up to the coverage
dopesheet_update_channels(tracking) ==
    tracking_dopesheet_channels_sort(
        tracking_dopesheet_channels_calc(
            tracking_dopesheet_free(tracking.dopesheet),
            ListOf(tracking,
                   BKE_tracking_object_get_tracks(
                       tracking, BKE_tracking_object_get_active(tracking))),
            1),
        tracking.dopesheet.sort_method,
        "SORT_INVERSE" \in tracking.dopesheet.flag)

dopesheet_update_coverage(tracking) ==
    tracking_dopesheet_calc_coverage(
        ListOf(tracking,
               BKE_tracking_object_get_tracks(
                   tracking, BKE_tracking_object_get_active(tracking))))

\* BKE_tracking_dopesheet_update: [fault, ov, ok, tracking]; ov tells that
\* an int overflowed on the way, and trap that the build traps on it
BKE_tracking_dopesheet_update(tracking, ok, trap) ==
    IF ok THEN [fault |-> FALSE, ov |-> FALSE, ok |-> ok, tracking |-> tracking]
    ELSE IF dopesheet_update_coverage(tracking).fault
            \/ (trap /\ dopesheet_update_coverage(tracking).ov)
    THEN [fault |-> TRUE, ov |-> dopesheet_update_coverage(tracking).ov,
          ok |-> ok,
          tracking |-> [tracking EXCEPT
                           !.dopesheet = dopesheet_update_channels(tracking)]]
    ELSE [fault |-> FALSE, ov |-> dopesheet_update_coverage(tracking).ov,
          ok |-> TRUE,
          tracking |-> [tracking EXCEPT
                           !.dopesheet =
                               [dopesheet_update_channels(tracking) EXCEPT
                                   !.coverage_segments =
                                       dopesheet_update_coverage(tracking)
                                           .segments]]]

(***************************************************************************)
(* 2D stabilization (tracking.c, "2D stabilization" section).  A float of  *)
(* the stabilization is an exact fraction [n, d] with d >= 0; d = 0 is the *)
(* infinity of the sign of n, or NaN when n = 0.  Positions are in pixels, *)
(* so a normalised difference times the frame width is a difference of     *)
(* positions; a median is kept doubled, as max + min.  The clips of the    *)
(* model leave TRACKING_STABILIZE_ROTATION off: the angle is 0.0f, whose   *)
(* sine and cosine are exact.                                              *)
(***************************************************************************)
Float(n, d) == IF d < 0 THEN [n |-> -n, d |-> -d] ELSE [n |-> n, d |-> d]

\* a > b on floats: FALSE when either is NaN
float_gt(a, b) ==
    IF a.d = 0 /\ b.d = 0 THEN a.n > 0 /\ b.n < 0
    ELSE a.n * b.d > b.n * a.d

float_max_ff(a, b) == IF float_gt(a, b) THEN a ELSE b
float_min_ff(a, b) == IF float_gt(b, a) THEN a ELSE b

\* the stabilization settings of a new clip
NoStabilization ==
    [flag |-> {}, scale |-> Float(0, 1), maxscale |-> Float(2, 1),
     scaleinf |-> 1, locinf |-> 1, rotinf |-> 1]

\* minmax_v2v2_v2 after INIT_MINMAX2
median_minmax(m, pos) ==
    IF ~m.ok THEN [m EXCEPT !.ok = TRUE, !.min = pos, !.max = pos]
    ELSE [m EXCEPT
             !.min = <<min_ff(@[1], pos[1]), min_ff(@[2], pos[2])>>,
             !.max = <<max_ff(@[1], pos[1]), max_ff(@[2], pos[2])>>]

\* the loop of stabilization_median_point_get from track i on: the marker
\* BKE_tracking_marker_get returns is dereferenced without a NULL test
RECURSIVE median_point_loop(_, _, _, _)
median_point_loop(tracksbase, framenr, i, m) ==
    IF i > Len(tracksbase)
    THEN [ok |-> m.ok, fault |-> FALSE, tracks |-> tracksbase,
          median |-> <<m.max[1] + m.min[1], m.max[2] + m.min[2]>>]
    ELSE IF "USE_2D_STAB" \notin tracksbase[i].flag
    THEN median_point_loop(tracksbase, framenr, i + 1, m)
    ELSE LET g == BKE_tracking_marker_get(tracksbase[i], framenr)
         IN  IF g.null
             THEN [ok |-> m.ok, fault |-> TRUE, tracks |-> tracksbase,
                   median |-> <<0, 0>>]
             ELSE median_point_loop(
                      [tracksbase EXCEPT ![i] = g.t], framenr, i + 1,
                      median_minmax(m, g.t.markers[g.idx + 1].pos))

\* stabilization_median_point_get: [ok, fault, tracks, median], the median
\* doubled
stabilization_median_point_get(tracksbase, framenr) ==
    median_point_loop(tracksbase, framenr, 1,
                      [ok |-> FALSE, min |-> <<0, 0>>, max |-> <<0, 0>>])

\* stabilization_calculate_data: the translation is <<n[1], n[2]>> / d
stabilization_calculate_data(stab, firstmedian, median) ==
    LET scale == Float((stab.scale.n - stab.scale.d) * stab.scaleinf
                           + stab.scale.d, stab.scale.d)
    IN  [scale |-> scale, angle |-> 0,
         translation |->
             [n |-> <<(firstmedian[1] - median[1]) * scale.n * stab.locinf,
                      (firstmedian[2] - median[2]) * scale.n * stab.locinf>>,
              d |-> 2 * scale.d]]

autoscale_points(width, height) ==
    <<<<0, 0>>, <<0, height>>, <<width, height>>, <<width, 0>>>>

rotDx == <<<<1, 0>>, <<0, -1>>, <<-1, 0>>, <<0, 1>>>>
rotDy == <<<<0, 1>>, <<1, 0>>, <<0, -1>>, <<-1, 0>>>>

\* cross_v2v2(v1, v2) >= 0.0f for the edge i and the corner j (from 0), the
\* edge moved by the translation
autoscale_cross(width, height, translation, i, j) ==
    LET points == autoscale_points(width, height)
        a == points[i + 1]
        b == points[((i + 1) % 4) + 1]
        point == points[j + 1]
        v1 == <<b[1] - a[1], b[2] - a[2]>>
        v2 == <<translation.d * (point[1] - a[1]) - translation.n[1],
                translation.d * (point[2] - a[2]) - translation.n[2]>>
    IN  v1[1] * v2[2] - v1[2] * v2[1] >= 0

\* autoscale_S with the scale 1.0f for every corner
autoscale_S_unit(width, height, translation, si, co, i, j) == Float(1, 1)

\* the scale S the corner j needs against the edge i; E to J are doubled
\* and K is fourfold
autoscale_S(width, height, translation, si, co, i, j) ==
    LET dx == translation.n[1] * rotDx[j + 1][1]
                  + translation.n[2] * rotDx[j + 1][2]
        dy == translation.n[1] * rotDy[j + 1][1]
                  + translation.n[2] * rotDy[j + 1][2]
        w == IF j % 2 = 1 THEN height ELSE width
        h == IF j % 2 = 1 THEN width ELSE height
        E == -w * co + h * si
        F == -h * co - w * si
        G == IF i % 2 = j % 2 THEN -w * co - h * si ELSE w * co + h * si
        H == IF i % 2 = j % 2 THEN h * co - w * si ELSE -h * co + w * si
        I == F - H
        J == G - E
        K == G * F - E * H
    IN  Float(-(w * I + h * J) * translation.d,
              2 * dx * I + 2 * dy * J + translation.d * K)

\* the loops over the edges i and the corners j of one frame, k = 4 * i + j;
\* max_ff(scale, S) is S unless scale > S
RECURSIVE autoscale_corners(_, _, _, _, _)
autoscale_corners(width, height, translation, k, scale) ==
    IF k >= 16 THEN scale
    ELSE IF autoscale_cross(width, height, translation, k \div 4, k % 4)
            /\ ~float_gt(scale, autoscale_S(width, height, translation, 0, 1,
                                            k \div 4, k % 4))
    THEN autoscale_corners(
             width, height, translation, k + 1,
             autoscale_S(width, height, translation, 0, 1, k \div 4, k % 4))
    ELSE autoscale_corners(width, height, translation, k + 1, scale)

\* the frame range of the tracks used for stabilization: [sfra, efra]
RECURSIVE autoscale_range(_, _, _, _)
autoscale_range(tracking, tracksbase, i, r) ==
    IF i > Len(tracksbase) THEN r
    ELSE autoscale_range(
             tracking, tracksbase, i + 1,
             IF "USE_2D_STAB" \in tracksbase[i].flag
                    \/ ("STABILIZE_ROTATION" \in tracking.stabilization.flag
                            /\ tracksbase[i].addr = tracking.rot_track)
             THEN [sfra |-> min_ff(r.sfra, tracksbase[i].markers[1].framenr),
                   efra |-> max_ff(r.efra,
                               tracksbase[i].markers[
                                   markersnr(tracksbase[i])].framenr)]
             ELSE r)

\* the loop over the frames cfra..efra, stab->scale being 1.0f: [tracks,
\* scale]
RECURSIVE autoscale_frames(_, _, _, _, _, _, _, _)
autoscale_frames(stab, tracksbase, width, height, firstmedian, cfra, efra, scale) ==
    IF cfra > efra THEN [tracks |-> tracksbase, scale |-> scale]
    ELSE LET m == stabilization_median_point_get(tracksbase, cfra)
             data == stabilization_calculate_data(stab, firstmedian, m.median)
         IN  autoscale_frames(
                 stab, m.tracks, width, height, firstmedian, cfra + 1, efra,
                 autoscale_corners(width, height, data.translation, 0, scale))

\* stabilization_calculate_autoscale_factor: [fault, tracking]
stabilization_calculate_autoscale_factor(tracking, width, height) ==
    IF tracking.stabilization_ok THEN [fault |-> FALSE, tracking |-> tracking]
    ELSE LET first == stabilization_median_point_get(tracking.tracks, 1)
             stab == [tracking.stabilization EXCEPT !.scale = Float(1, 1)]
             r == autoscale_range(tracking, first.tracks, 1,
                                  [sfra |-> INT_MAX, efra |-> -INT_MAX - 1])
             res == autoscale_frames(stab, first.tracks, width, height,
                                     first.median, r.sfra, r.efra, Float(1, 1))
         IN  IF first.fault THEN [fault |-> TRUE, tracking |-> tracking]
             ELSE IF ~first.ok
             THEN [fault |-> FALSE,
                   tracking |-> [tracking EXCEPT !.stabilization = stab,
                                                 !.stabilization_ok = TRUE]]
             ELSE [fault |-> FALSE,
                   tracking |->
                       [tracking EXCEPT
                           !.tracks = res.tracks,
                           !.stabilization_ok = TRUE,
                           !.stabilization.scale =
                               IF float_gt(stab.maxscale, Float(0, 1))
                               THEN float_min_ff(res.scale, stab.maxscale)
                               ELSE res.scale]]

\* BKE_tracking_stabilization_data_get: [fault, tracking, data]
StillData == [scale |-> Float(1, 1), angle |-> 0,
              translation |-> [n |-> <<0, 0>>, d |-> 1]]

stabilization_data_get_scaled(tracking, width, height) ==
    IF ~tracking.stabilization_ok
           /\ "AUTOSCALE" \in tracking.stabilization.flag
    THEN stabilization_calculate_autoscale_factor(tracking, width, height)
    ELSE [fault |-> FALSE, tracking |-> tracking]

BKE_tracking_stabilization_data_get(tracking, framenr, width, height) ==
    IF "2D_STABILIZATION" \notin tracking.stabilization.flag
    THEN [fault |-> FALSE, tracking |-> tracking, data |-> StillData]
    ELSE LET first == stabilization_median_point_get(tracking.tracks, 1)
             m == stabilization_median_point_get(first.tracks, framenr)
             unit == [tracking EXCEPT
                         !.tracks = m.tracks,
                         !.stabilization.scale =
                             IF "AUTOSCALE" \in tracking.stabilization.flag
                             THEN @ ELSE Float(1, 1)]
             scaled == stabilization_data_get_scaled(unit, width, height)
         IN  IF first.fault
             THEN [fault |-> TRUE, tracking |-> tracking, data |-> StillData]
             ELSE IF ~first.ok
             THEN [fault |-> FALSE,
                   tracking |-> [tracking EXCEPT !.tracks = first.tracks],
                   data |-> StillData]
             ELSE [fault |-> scaled.fault,
                   tracking |-> [scaled.tracking EXCEPT
                                    !.stabilization_ok = TRUE],
                   data |-> stabilization_calculate_data(
                                scaled.tracking.stabilization, first.median,
                                m.median)]

(***************************************************************************)
(* The tracking step as a state machine: a context is made for the         *)
(* selected tracks of a clip and stepped, each step with what the image    *)
(* reading and the tracker give.                                           *)
(***************************************************************************)
\* BKE_tracking_settings_init: the structure of a new clip, with the
\* defaults of the settings the model reads
BKE_tracking_settings_init(settings) ==
    BKE_tracking_object_add(
        [tracks |-> <<>>, objects |-> <<>>, objectnr |-> 0, tot_object |-> 0,
         act_track |-> NULL, rot_track |-> NULL, settings |-> settings,
         stabilization_ok |-> FALSE, stabilization |-> NoStabilization,
         dopesheet |-> NoDopesheet],
        TrackName("Camera", 0))

Settings(pattern_match) ==
    [default_pattern_size |-> 2, default_flag |-> {}, default_margin |-> 0,
     default_pattern_match |-> pattern_match]

\* the frame the cursor is on when the context is made, in scene frames
CursorFrame == ClipStartFrame + MaxSteps

Centre == <<FrameSize \div 2, FrameSize \div 2>>
Border == <<0, FrameSize \div 2>>

\* what the reference reading and the tracker may give for one track
TrackerResults ==
    {[reference |-> FALSE, tracked |-> FALSE, pos |-> Centre],
     [reference |-> TRUE, tracked |-> FALSE, pos |-> Centre],
     [reference |-> TRUE, tracked |-> TRUE, pos |-> Centre],
     [reference |-> TRUE, tracked |-> TRUE, pos |-> Border]}

\* the markers a track has besides the one on the cursor frame when the
\* context is made: <<offset, flag>>, the offset counted in the direction of
\* the tracking
Shapes ==
    {<<>>, <<<<-1, {}>>>>, <<<<2, {}>>>>, <<<<2, {"DISABLED"}>>>>,
     <<<<-1, {}>>, <<2, {}>>>>, <<<<-1, {}>>, <<2, {"DISABLED"}>>>>,
     <<<<-1, {}>>, <<0, {"TRACKED"}>>>>, <<<<3, {}>>>>}

RECURSIVE ShapedTrack(_, _, _, _, _)
ShapedTrack(t, shape, i, c, d) ==
    IF i > Len(shape) THEN t
    ELSE ShapedTrack(
             BKE_tracking_marker_insert(
                 t, [t.markers[1] EXCEPT !.framenr = c + shape[i][1] * d,
                                         !.flag = shape[i][2]]),
             shape, i + 1, c, d)

\* a clip with one selected track for each shape, added on clip frame c
RECURSIVE ShapedTracks(_, _, _, _, _)
ShapedTracks(tracking, shapes, i, c, d) ==
    IF i > Len(shapes) THEN tracking
    ELSE ShapedTracks(
             [tracking EXCEPT
                 !.tracks =
                    [BKE_tracking_track_add(
                         tracking.settings, @, FreshAddr(ListAddrs(@)), Centre, c)
                     EXCEPT ![i] = BKE_tracking_track_flag_set(
                                       ShapedTrack(@, shapes[i], 1, c, d),
                                       TRACK_AREA_ALL, "SELECT")]],
             shapes, i + 1, c, d)

NoStep == [ran |-> FALSE, context |-> NoContext, dest |-> FALSE,
           ok |-> FALSE, outcome |-> <<>>]

NoEdit == [n |-> 0, kind |-> "none", addr |-> NULL, framenr |-> 0]

\* no step is running; order is the order the tasks got the critical
\* section in
NoFork == [on |-> FALSE, joined |-> FALSE, entry |-> NoContext, res |-> <<>>,
           pc |-> <<>>, tracked |-> <<>>, ok |-> FALSE, order |-> <<>>]

NoMerge == [ran |-> FALSE, context |-> NoContext, added |-> {},
            edit |-> NoEdit,
            tracking |-> BKE_tracking_settings_init(Settings("KEYFRAME"))]

TrackingIdle ==
    /\ live = BKE_tracking_settings_init(Settings("KEYFRAME"))
    /\ tracking_clipboard = <<>>
    /\ job = NoContext
    /\ stepped = NoStep
    /\ merged = NoMerge
    /\ crashed = FALSE
    /\ edit = NoEdit
    /\ added = {}
    /\ fork = NoFork
    /\ solve = NoSolve

\* a context is made for n selected tracks of the given shapes, n of ns
StepInitOf(ns, shapeset) ==
    \E n \in ns, backwards \in BOOLEAN,
       pattern_match \in {"KEYFRAME", "PREVFRAME"} :
      \E shapes \in [1..n -> shapeset] :
        LET new == BKE_tracking_context_new(
                       ShapedTracks(
                           BKE_tracking_settings_init(Settings(pattern_match)),
                           shapes, 1,
                           BKE_movieclip_remap_scene_to_clip_frame(CursorFrame),
                           IF backwards THEN -1 ELSE 1),
                       CursorFrame, backwards)
        IN  /\ live = new.tracking
            /\ job = new.context
            /\ crashed = new.fault
            /\ tracking_clipboard = <<>>
            /\ stepped = NoStep
            /\ merged = NoMerge
            /\ edit = NoEdit
            /\ added = {}
            /\ fork = NoFork
            /\ solve = NoSolve

StepInit == StepInitOf(1..StepTracks, Shapes)

\* the shapes of the tracks whose step is run as tasks
ForkShapes ==
    {<<>>, <<<<2, {}>>>>, <<<<-1, {}>>, <<0, {"TRACKED"}>>>>}

ForkInit == StepInitOf({StepTracks}, ForkShapes)

\* the frames the context has advanced by since it was made
FramesAdvanced(context) ==
    IF context.backwards THEN CursorFrame - context.framenr
    ELSE context.framenr - CursorFrame

\* BKE_tracking_context_step with what the image reading and the tracker
\* give; stepped keeps the context as it was on entry and what the step
\* returned
ContextStep ==
    \E dest \in BOOLEAN,
       res \in [1..job.tracks_map.num_tracks -> TrackerResults] :
        /\ ~crashed
        /\ FramesAdvanced(job) < MaxSteps
        /\ LET r == BKE_tracking_context_step(job, dest, res)
           IN  /\ job' = r.context
               /\ crashed' = r.fault
               /\ stepped' = [ran |-> TRUE, context |-> job, dest |-> dest,
                              ok |-> r.ok, outcome |-> r.outcome]
        /\ merged' = NoMerge
        /\ UNCHANGED <<live, tracking_clipboard, edit, added, dopesheet_ok>>

(***************************************************************************)
(* The making of a context as a state machine: BKE_tracking_context_new is *)
(* called once on a clip whose tracks have any flags and any markers on    *)
(* and around the cursor frame.                                            *)
(***************************************************************************)
\* the three flag words a track of the clip may have
NewFlags ==
    {[flag |-> {}, pat_flag |-> {}, search_flag |-> {}],
     [flag |-> {"SELECT"}, pat_flag |-> {"SELECT"}, search_flag |-> {"SELECT"}],
     [flag |-> {}, pat_flag |-> {"SELECT"}, search_flag |-> {}],
     [flag |-> {"SELECT", "LOCKED"}, pat_flag |-> {"SELECT"},
      search_flag |-> {"SELECT"}],
     [flag |-> {"SELECT", "HIDDEN"}, pat_flag |-> {"SELECT"},
      search_flag |-> {"SELECT"}]}

\* the markers a track of the clip may have: <<drop, shape>>, the shape as
\* in Shapes, drop TRUE when the marker of the cursor frame is deleted
NewLayouts ==
    {<<FALSE, <<>>>>,
     <<FALSE, <<<<0, {"DISABLED"}>>>>>>,
     <<TRUE, <<<<-1, {}>>>>>>,
     <<TRUE, <<<<1, {}>>>>>>,
     <<TRUE, <<<<-1, {"DISABLED"}>>, <<1, {}>>>>>>,
     <<FALSE, <<<<-1, {}>>, <<0, {"DISABLED"}>>>>>>,
     <<TRUE, <<>>>>}

\* the track t, added on clip frame c, given the flags and the layout
NewTrack(t, flags, layout, c) ==
    [(IF layout[1]
      THEN BKE_tracking_marker_delete(ShapedTrack(t, layout[2], 1, c, 1), c)
      ELSE ShapedTrack(t, layout[2], 1, c, 1))
     EXCEPT !.flag = flags.flag, !.pat_flag = flags.pat_flag,
            !.search_flag = flags.search_flag]

RECURSIVE NewTracks(_, _, _, _, _)
NewTracks(settings, tracksbase, flags, layouts, c) ==
    IF Len(tracksbase) = Len(flags) THEN tracksbase
    ELSE NewTracks(
             settings,
             [BKE_tracking_track_add(settings, tracksbase,
                                     FreshAddr(ListAddrs(tracksbase)), Centre, c)
              EXCEPT ![Len(tracksbase) + 1] =
                  NewTrack(@, flags[Len(tracksbase) + 1],
                           layouts[Len(tracksbase) + 1], c)],
             flags, layouts, c)

NewInit ==
    \E n \in 1..StepTracks :
      \E flags \in [1..n -> NewFlags], layouts \in [1..n -> NewLayouts] :
        /\ live = [BKE_tracking_settings_init(Settings("KEYFRAME")) EXCEPT
                      !.tracks = NewTracks(
                          Settings("KEYFRAME"), <<>>, flags, layouts,
                          BKE_movieclip_remap_scene_to_clip_frame(CursorFrame))]
        /\ tracking_clipboard = <<>>
        /\ job = NoContext
        /\ stepped = NoStep
        /\ merged = NoMerge
        /\ crashed = FALSE
        /\ edit = NoEdit
        /\ added = {}
        /\ fork = NoFork
        /\ solve = NoSolve

\* BKE_tracking_context_new on the clip, the cursor on CursorFrame
ContextNew ==
    \E backwards \in BOOLEAN :
        /\ job = NoContext /\ ~crashed
        /\ LET new == BKE_tracking_context_new(live, CursorFrame, backwards)
           IN  /\ live' = new.tracking
               /\ job' = new.context
               /\ crashed' = new.fault
        /\ UNCHANGED <<tracking_clipboard, stepped, merged, edit, added, fork,
                       dopesheet_ok>>

(***************************************************************************)
(* The loop of BKE_tracking_context_step as the parallel for it is: one    *)
(* task for each track of the map, run in any interleaving and joined at   *)
(* the end of the loop.  A task runs up to the critical section, inserts   *)
(* its marker in the critical section, and writes the shared ok.           *)
(***************************************************************************)
\* a mutant of step_ok_write: the task writes what its tracker gave
step_ok_write_tracked(ok, tracked) == tracked

\* ok = true, written by every task that has inserted a marker
step_ok_write(ok, tracked) == TRUE

\* the loop body up to the critical section on the enabled marker of the
\* current frame: [go, tracked, customdata], go FALSE for the continue
fork_enabled(context, t, marker, customdata, res) ==
    IF ~tracking_check_marker_margin(t, marker, FrameSize, FrameSize)
    THEN [go |-> TRUE, tracked |-> FALSE, customdata |-> customdata]
    ELSE IF ~step_need_readjust(context, t)
    THEN [go |-> TRUE, tracked |-> customdata.search_area /\ res.tracked,
          customdata |-> customdata]
    ELSE IF ~res.reference
    THEN [go |-> FALSE, tracked |-> FALSE, customdata |-> customdata]
    ELSE [go |-> TRUE, tracked |-> res.tracked,
          customdata |-> [search_area |-> TRUE]]

\* the loop body up to the critical section once the marker e of the
\* current frame is looked up
fork_marker(context, e, customdata, res) ==
    IF e.fault \/ e.null
    THEN [go |-> FALSE, tracked |-> FALSE, customdata |-> customdata]
    ELSE IF "DISABLED" \in e.t.markers[e.idx + 1].flag
    THEN [go |-> FALSE, tracked |-> FALSE, customdata |-> customdata]
    ELSE fork_enabled(context, e.t, e.t.markers[e.idx + 1], customdata, res)

ForkCurfra == BKE_movieclip_remap_scene_to_clip_frame(fork.entry.framenr)

\* BKE_tracking_context_step up to the parallel for
ForkBegin ==
    \E dest \in BOOLEAN,
       res \in [1..job.tracks_map.num_tracks -> TrackerResults] :
        /\ ~fork.on /\ ~crashed
        /\ FramesAdvanced(job) < MaxSteps
        /\ IF job.tracks_map.null
           THEN /\ crashed' = TRUE
                /\ UNCHANGED <<job, fork>>
           ELSE IF tracks_map_get_size(job.tracks_map) = 0 \/ ~dest
           THEN /\ job' = BKE_tracking_context_step(job, dest, res).context
                /\ fork' = [NoFork EXCEPT !.entry = job, !.res = res]
                /\ UNCHANGED crashed
           ELSE /\ job' = [job EXCEPT !.framenr =
                               @ + (IF job.backwards THEN -1 ELSE 1)]
                /\ fork' = [on |-> TRUE, joined |-> FALSE, entry |-> job,
                            res |-> res,
                            pc |-> [a \in 1..job.tracks_map.num_tracks |-> "run"],
                            tracked |-> [a \in 1..job.tracks_map.num_tracks |-> FALSE],
                            ok |-> FALSE, order |-> <<>>]
                /\ UNCHANGED crashed
        /\ UNCHANGED <<live, tracking_clipboard, stepped, merged, edit, added,
                       dopesheet_ok>>

\* task a from the head of the loop body to the critical section
TaskRun(a) ==
    /\ fork.on /\ ~crashed
    /\ fork.pc[a] = "run"
    /\ LET e == BKE_tracking_marker_get_exact(job.tracks_map.tracks[a],
                                              ForkCurfra)
           r == fork_marker(fork.entry, e, job.tracks_map.customdata[a],
                            fork.res[a])
       IN  /\ crashed' = e.fault
           /\ job' = [job EXCEPT !.tracks_map.tracks[a] = e.t,
                                  !.tracks_map.customdata[a] = r.customdata]
           /\ fork' = [fork EXCEPT !.pc[a] = IF r.go THEN "insert" ELSE "done",
                                   !.tracked[a] = r.tracked]
    /\ UNCHANGED <<live, tracking_clipboard, stepped, merged, edit, added,
                   dopesheet_ok>>

\* task a in the critical section: tracking_insert_new_marker
TaskInsert(a) ==
    /\ fork.on /\ ~crashed
    /\ fork.pc[a] = "insert"
    /\ LET t == job.tracks_map.tracks[a]
           e == BKE_tracking_marker_get_exact(t, ForkCurfra)
           r == tracking_insert_new_marker(
                    fork.entry, t, t.markers[e.idx + 1], ForkCurfra,
                    fork.tracked[a], fork.res[a].pos)
       IN  /\ crashed' = r.fault
           /\ job' = [job EXCEPT !.tracks_map.tracks[a] = r.t]
    /\ fork' = [fork EXCEPT !.pc[a] = "ok", !.order = Append(@, a)]
    /\ UNCHANGED <<live, tracking_clipboard, stepped, merged, edit, added,
                   dopesheet_ok>>

\* task a after the critical section: the write to the shared ok
TaskOk(a) ==
    /\ fork.on /\ ~crashed
    /\ fork.pc[a] = "ok"
    /\ fork' = [fork EXCEPT !.pc[a] = "done",
                            !.ok = step_ok_write(@, fork.tracked[a])]
    /\ UNCHANGED <<live, tracking_clipboard, job, stepped, merged, crashed,
                   edit, added, dopesheet_ok>>

\* the end of the parallel for and of BKE_tracking_context_step, which
\* returns fork.ok
ForkJoin ==
    /\ fork.on /\ ~crashed
    /\ \A a \in 1..Len(fork.pc) : fork.pc[a] = "done"
    /\ job' = [job EXCEPT !.first_time = FALSE, !.frames = @ + 1]
    /\ fork' = [fork EXCEPT !.on = FALSE, !.joined = TRUE]
    /\ UNCHANGED <<live, tracking_clipboard, stepped, merged, crashed, edit,
                   added, dopesheet_ok>>

ForkNext ==
    \/ ForkBegin
    \/ \E a \in 1..Len(fork.pc) : TaskRun(a)
    \/ \E a \in 1..Len(fork.pc) : TaskInsert(a)
    \/ \E a \in 1..Len(fork.pc) : TaskOk(a)
    \/ ForkJoin


(***************************************************************************)
(* The reconstruction as a state machine: a context is made for the tracks *)
(* of the camera object, the solver runs on it, and the result is copied   *)
(* to the clip.  What the solver gives is an input: for every frame from   *)
(* sfra to efra a camera or none, for every track a point or none.         *)
(* "solve" holds the settings, the keyframes of the object, its            *)
(* reconstruction, the context, and the reconstruction as it was on entry  *)
(* to the finish.                                                          *)
(***************************************************************************)
\* the clip frame the tracks of the clip are added on
SolveFrame == 2

\* the markers a track of the clip may have, as in Shapes
SolveShapes ==
    {<<>>,
     <<<<1, {}>>>>,
     <<<<-1, {}>>>>,
     <<<<0, {"DISABLED"}>>, <<1, {}>>>>,
     <<<<1, {"DISABLED"}>>>>,
     <<<<0, {"DISABLED"}>>>>,
     <<<<-1, {}>>, <<0, {"DISABLED"}>>, <<1, {}>>>>}

\* the cameras and the points the solver may give
SolvePoses ==
    {NoPose,
     [has |-> TRUE, mat |-> [a |-> 1, b |-> 1], error |-> 1],
     [has |-> TRUE, mat |-> [a |-> -1, b |-> 1], error |-> 2]}

SolvePoints == {NoPoint, [has |-> TRUE, pos |-> 2, error |-> 1]}

\* a reconstruction of an earlier solve
PriorReconstruction ==
    [cameras |-> <<[framenr |-> 1, mat |-> unit_m4, error |-> 0]>>,
     camnr |-> 1, error |-> 5, flag |-> {"RECONSTRUCTED"}, last_camera |-> 0]

SolveClip(shapes) ==
    [BKE_tracking_settings_init(Settings("KEYFRAME")) EXCEPT
        !.tracks = NewTracks(
            Settings("KEYFRAME"), <<>>,
            [i \in 1..Len(shapes) |->
                [flag |-> {}, pat_flag |-> {}, search_flag |-> {}]],
            [i \in 1..Len(shapes) |-> <<FALSE, shapes[i]>>],
            SolveFrame)]

HasEnabledMarker(t) ==
    \E i \in 1..Len(t.markers) : ~Disabled(t.markers[i])

\* a clip of one or two tracks, one of them with an enabled marker
SolveInit ==
    \E n \in 1..StepTracks :
      \E shapes \in [1..n -> SolveShapes],
         reconstruction_flag \in {{}, {"USE_KEYFRAME_SELECTION"}},
         reconstruction \in {NoReconstruction, PriorReconstruction} :
        /\ \E i \in 1..n : HasEnabledMarker(SolveClip(shapes).tracks[i])
        /\ live = SolveClip(shapes)
        /\ solve = [NoSolve EXCEPT
                       !.settings.reconstruction_flag = reconstruction_flag,
                       !.object = [keyframe1 |-> 1, keyframe2 |-> 3],
                       !.reconstruction = reconstruction]
        /\ tracking_clipboard = <<>>
        /\ job = NoContext
        /\ stepped = NoStep
        /\ merged = NoMerge
        /\ crashed = FALSE
        /\ edit = NoEdit
        /\ added = {}
        /\ fork = NoFork

\* BKE_tracking_reconstruction_context_new for the camera object
SolveContextNew ==
    /\ solve.op = "none"
    /\ solve' = [solve EXCEPT
          !.op = "context",
          !.context = BKE_tracking_reconstruction_context_new(
                          solve.settings,
                          ListOf(live, BKE_tracking_object_get_tracks(live, 1)),
                          live.objects[1],
                          solve.object.keyframe1, solve.object.keyframe2)]
    /\ UNCHANGED <<live, dopesheet_ok>>

\* BKE_tracking_reconstruction_solve
SolveSolve ==
    \E cameras \in [solve.context.sfra..solve.context.efra -> SolvePoses],
       points \in [1..solve.context.tracks_map.num_tracks -> SolvePoints],
       keyframe1 \in {1, 2} :
        /\ solve.op = "context"
        /\ solve' = [solve EXCEPT
              !.op = "solved",
              !.context = BKE_tracking_reconstruction_solve(
                              @, [points |-> points, cameras |-> cameras,
                                  error |-> 3],
                              keyframe1, 3)]
        /\ UNCHANGED <<live, dopesheet_ok>>

\* BKE_tracking_reconstruction_finish
SolveFinish ==
    \E reuse \in BOOLEAN :
        /\ solve.op = "solved"
        /\ LET r == BKE_tracking_reconstruction_finish(
                        solve.context, live, solve.object,
                        solve.reconstruction, reuse)
           IN  /\ live' = r.tracking
               /\ solve' = [solve EXCEPT
                     !.op = "finished", !.ok = r.ok,
                     !.object = r.object,
                     !.reconstruction = r.reconstruction,
                     !.entry = solve.reconstruction,
                     !.context.tracks_map = r.tracks_map]
        /\ BKE_tracking_dopesheet_tag_update

SolveNext ==
    /\ \/ SolveContextNew
       \/ SolveSolve
       \/ SolveFinish
    /\ UNCHANGED <<tracking_clipboard, job, stepped, merged, crashed, edit,
                   added, fork>>


(***************************************************************************)
(* The check before the reconstruction as a state machine: the clip has    *)
(* some tracks with enabled markers on both keyframes of the camera object *)
(* and may have one that lacks one of them; BKE_tracking_reconstruction_-  *)
(* check is called once.                                                   *)
(***************************************************************************)
\* the most tracks with markers on both keyframes
MaxCheckTracks == 9

\* the keyframes of the object
CheckKeyframe1 == 1
CheckKeyframe2 == 3

\* the markers of a track with enabled markers on both keyframes
CheckBoth == <<<<CheckKeyframe2 - CheckKeyframe1, {}>>>>

\* the markers of a track that lacks an enabled marker on a keyframe
CheckLacking ==
    {<<>>,
     <<<<CheckKeyframe2 - CheckKeyframe1, {"DISABLED"}>>>>,
     <<<<0, {"DISABLED"}>>, <<CheckKeyframe2 - CheckKeyframe1, {}>>>>}

CheckInit ==
    \E n \in 0..MaxCheckTracks,
       lacking \in {<<>>} \cup {<<shape>> : shape \in CheckLacking},
       motion_flag \in {{}, {"MODAL"}},
       reconstruction_flag \in {{}, {"USE_KEYFRAME_SELECTION"}},
       with_libmv \in BOOLEAN :
        /\ live = [BKE_tracking_settings_init(Settings("KEYFRAME")) EXCEPT
              !.tracks = NewTracks(
                  Settings("KEYFRAME"), <<>>,
                  [i \in 1..(Len(lacking) + n) |->
                      [flag |-> {}, pat_flag |-> {}, search_flag |-> {}]],
                  [i \in 1..(Len(lacking) + n) |->
                      <<FALSE, IF i <= Len(lacking) THEN lacking[i]
                               ELSE CheckBoth>>],
                  CheckKeyframe1)]
        /\ solve = [NoSolve EXCEPT
                       !.settings = [motion_flag |-> motion_flag,
                                     reconstruction_flag |-> reconstruction_flag,
                                     with_libmv |-> with_libmv],
                       !.object = [keyframe1 |-> CheckKeyframe1,
                                   keyframe2 |-> CheckKeyframe2]]
        /\ tracking_clipboard = <<>>
        /\ job = NoContext
        /\ stepped = NoStep
        /\ merged = NoMerge
        /\ crashed = FALSE
        /\ edit = NoEdit
        /\ added = {}
        /\ fork = NoFork

\* BKE_tracking_reconstruction_check for the camera object
ReconstructionCheck ==
    /\ solve.op = "none"
    /\ solve' = [solve EXCEPT
          !.op = "checked",
          !.ok = BKE_tracking_reconstruction_check(
                     solve.settings,
                     ListOf(live, BKE_tracking_object_get_tracks(live, 1)),
                     solve.object)]
    /\ UNCHANGED <<live, tracking_clipboard, job, stepped, merged, crashed,
                   edit, added, fork, dopesheet_ok>>


(***************************************************************************)
(* The camera of a frame as a state machine: the object has a              *)
(* reconstruction with cameras on some frames and a last_camera left by    *)
(* earlier calls or by an earlier reconstruction; the camera is asked for  *)
(* one frame after the other.                                              *)
(***************************************************************************)
\* the last frame a camera may be on, and the most cameras before
\* last_camera
MaxCameraFrame == 5
MaxLastCamera == 3

RECURSIVE CamerasOn(_, _)
CamerasOn(frames, a) ==
    IF a > MaxCameraFrame THEN <<>>
    ELSE IF a \in frames
    THEN <<[framenr |-> a, mat |-> [a |-> 1, b |-> a], error |-> 0]>>
             \o CamerasOn(frames, a + 1)
    ELSE CamerasOn(frames, a + 1)

CameraInit ==
    \E frames \in SUBSET (1..MaxCameraFrame), last_camera \in 0..MaxLastCamera,
       is_camera \in BOOLEAN :
        /\ solve = [NoSolve EXCEPT
              !.is_camera = is_camera,
              !.reconstruction =
                  [cameras |-> CamerasOn(frames, 1),
                   camnr |-> Cardinality(frames), error |-> 0,
                   flag |-> {"RECONSTRUCTED"}, last_camera |-> last_camera]]
        /\ live = BKE_tracking_settings_init(Settings("KEYFRAME"))
        /\ tracking_clipboard = <<>>
        /\ job = NoContext
        /\ stepped = NoStep
        /\ merged = NoMerge
        /\ crashed = FALSE
        /\ edit = NoEdit
        /\ added = {}
        /\ fork = NoFork

\* BKE_tracking_camera_get_reconstructed_interpolate
CameraQuery ==
    \E framenr \in 0..(MaxCameraFrame + 1) :
        LET r == BKE_tracking_camera_get_reconstructed_interpolate(
                     solve.reconstruction, solve.is_camera, framenr)
        IN  /\ solve' = [solve EXCEPT
                  !.op = "query",
                  !.entry = solve.reconstruction,
                  !.reconstruction = r.reconstruction,
                  !.query = [framenr |-> framenr, mat |-> r.mat,
                             scaled |-> r.scaled]]
            /\ UNCHANGED <<live, tracking_clipboard, job, stepped, merged,
                           crashed, edit, added, fork, dopesheet_ok>>


(***************************************************************************)
(* The merge as a state machine: a context is made for the selected tracks *)
(* of the active object, and while it is stepped and synchronised the user *)
(* edits the clip; the clipboard holds the tracks that were selected when  *)
(* the context was made.  "edit" keeps the last edit, "added" the tracks   *)
(* the user has added since the context was made; "merged" keeps the clip, *)
(* the context, "added" and the last edit as they were on entry to the     *)
(* last merge.                                                             *)
(***************************************************************************)
\* the clip the context is made for: two tracks on the cursor frame in the
\* list of the active object, the first selected, the second as well when
\* both is TRUE; act_track and rot_track are set by the caller
MergeClip(on_object, both, act_track, rot_track) ==
    LET base == BKE_tracking_settings_init(Settings("KEYFRAME"))
        clip == IF on_object
                THEN BKE_tracking_object_add(base, TrackName("Object", 0))
                ELSE base
        l == BKE_tracking_get_active_tracks(clip)
        c == BKE_movieclip_remap_scene_to_clip_frame(CursorFrame)
        one == BKE_tracking_track_add(clip.settings, <<>>, 1, Centre, c)
        two == BKE_tracking_track_add(clip.settings, one, 2, Centre, c)
        sel == BKE_tracking_track_select(two, 1, TRACK_AREA_ALL, FALSE)
    IN  [SetList(clip, l,
                 IF both
                 THEN BKE_tracking_track_select(sel, 2, TRACK_AREA_ALL, TRUE)
                 ELSE sel)
         EXCEPT !.act_track = act_track, !.rot_track = rot_track]

MergeInitOf(objects, boths) ==
    \E on_object \in objects, both \in boths :
        LET new == BKE_tracking_context_new(
                       MergeClip(on_object, both, 1, 1), CursorFrame, FALSE)
        IN  /\ live = new.tracking
            /\ job = new.context
            /\ crashed = new.fault
            /\ tracking_clipboard =
                  BKE_tracking_clipboard_copy_tracks(
                      ListOf(new.tracking,
                             BKE_tracking_get_active_tracks(new.tracking)))
            /\ stepped = NoStep
            /\ merged = NoMerge
            /\ edit = NoEdit
            /\ added = {}
            /\ fork = NoFork
            /\ solve = NoSolve

MergeInit == MergeInitOf(BOOLEAN, BOOLEAN)

ActiveList == BKE_tracking_get_active_tracks(live)
ActiveTracks == ListOf(live, ActiveList)

\* the addresses some pointer holds
HeldAddrs ==
    LiveAddrs(live) \cup HashAddrs(job.tracks_map)
        \cup {live.act_track, live.rot_track}

\* what the allocator may return for a new track: an address nothing holds,
\* or the address of a freed track that a pointer still holds
AllocChoices ==
    {FreshAddr(HeldAddrs)} \cup (HeldAddrs \ (LiveAddrs(live) \cup {NULL}))

\* what every edit of the user has in common
UserEdit(kind, addr, framenr) ==
    /\ ~crashed
    /\ edit.n < MaxEdits
    /\ edit' = [n |-> edit.n + 1, kind |-> kind, addr |-> addr,
                framenr |-> framenr]
    /\ merged' = NoMerge
    /\ UNCHANGED <<job, stepped, crashed>>

CursorClipFrame == BKE_movieclip_remap_scene_to_clip_frame(CursorFrame)

UserFrames == {CursorClipFrame, CursorClipFrame + 1}

\* the marker the user puts on a frame
UserMarker(framenr) ==
    TrackMarker(framenr, {}, Border, track_add_corners(<<1, 1>>))

UserTrackAdd ==
    \E addr \in AllocChoices :
        /\ Len(ActiveTracks) < MaxLive
        /\ UserEdit("track_add", addr, 0)
        /\ live' = SetList(live, ActiveList,
                           BKE_tracking_track_add(
                               live.settings, ActiveTracks, addr, Centre,
                               BKE_movieclip_remap_scene_to_clip_frame(CursorFrame)))
        /\ added' = added \cup {addr}
        /\ UNCHANGED <<tracking_clipboard, dopesheet_ok>>

\* a track is deleted: BKE_tracking_track_free and BLI_freelinkN, the
\* pointers to the track are cleared by the caller
UserTrackDelete ==
    \E k \in 1..Len(ActiveTracks) :
        /\ UserEdit("track_delete", ActiveTracks[k].addr, 0)
        /\ live' = [SetList(live, ActiveList, RemoveAt(ActiveTracks, k))
                    EXCEPT !.act_track = IF @ = ActiveTracks[k].addr
                                         THEN NULL ELSE @,
                           !.rot_track = IF @ = ActiveTracks[k].addr
                                         THEN NULL ELSE @]
        /\ added' = added \ {ActiveTracks[k].addr}
        /\ UNCHANGED <<tracking_clipboard, dopesheet_ok>>

UserSelect ==
    \E k \in 1..Len(ActiveTracks) :
        /\ UserEdit("select", ActiveTracks[k].addr, 0)
        /\ live' = SetList(live, ActiveList,
                           BKE_tracking_track_select(
                               ActiveTracks, k, TRACK_AREA_ALL, FALSE))
        /\ UNCHANGED <<tracking_clipboard, added, dopesheet_ok>>

UserDeselect ==
    \E k \in 1..Len(ActiveTracks) :
        /\ UserEdit("deselect", ActiveTracks[k].addr, 0)
        /\ live' = SetList(live, ActiveList,
                           [ActiveTracks EXCEPT
                               ![k] = BKE_tracking_track_deselect(
                                          @, TRACK_AREA_ALL)])
        /\ UNCHANGED <<tracking_clipboard, added, dopesheet_ok>>

UserMarkerInsert ==
    \E k \in 1..Len(ActiveTracks), framenr \in {CursorClipFrame + 1} :
        /\ UserEdit("marker_insert", ActiveTracks[k].addr, framenr)
        /\ live' = SetList(live, ActiveList,
                           [ActiveTracks EXCEPT
                               ![k] = BKE_tracking_marker_insert(
                                          @, UserMarker(framenr))])
        /\ UNCHANGED <<tracking_clipboard, added, dopesheet_ok>>

UserMarkerDelete ==
    \E k \in 1..Len(ActiveTracks), framenr \in UserFrames :
        /\ HasMarkerOn(ActiveTracks[k], framenr)
        /\ markersnr(ActiveTracks[k]) > 1
        /\ UserEdit("marker_delete", ActiveTracks[k].addr, framenr)
        /\ live' = SetList(live, ActiveList,
                           [ActiveTracks EXCEPT
                               ![k] = BKE_tracking_marker_delete(@, framenr)])
        /\ UNCHANGED <<tracking_clipboard, added, dopesheet_ok>>


UserPaste ==
    /\ tracking_clipboard # <<>>
    /\ Len(ActiveTracks) + Len(tracking_clipboard) <= MaxLive
    /\ UserEdit("paste", NULL, 0)
    /\ live' = SetList(live, ActiveList,
                       BKE_tracking_clipboard_paste_tracks(
                           ActiveTracks, tracking_clipboard,
                           HeldAddrs \ ListAddrs(ActiveTracks)))
    /\ added' = added \cup (LiveAddrs(live') \ LiveAddrs(live))
    /\ UNCHANGED <<tracking_clipboard, dopesheet_ok>>

UserObjectAdd ==
    /\ Len(live.objects) < MaxObjects
    /\ UserEdit("object_add", NULL, 0)
    /\ live' = BKE_tracking_object_add(live, TrackName("Object", 0))
    /\ BKE_tracking_dopesheet_tag_update
    /\ UNCHANGED <<tracking_clipboard, added>>

UserObjectDelete ==
    \E k \in 1..Len(live.objects) :
        /\ UserEdit("object_delete", NULL, 0)
        /\ live' = BKE_tracking_object_delete(live, k).tracking
        /\ dopesheet_ok' = (dopesheet_ok /\ ~BKE_tracking_object_delete(live, k).ok)
        /\ added' = added \cap LiveAddrs(live')
        /\ UNCHANGED tracking_clipboard

\* BKE_tracking_context_step in a run where the frames can be read and the
\* tracker succeeds for every track
JobStep ==
    /\ ~crashed
    /\ FramesAdvanced(job) < MaxSteps
    /\ LET r == BKE_tracking_context_step(
                    job, TRUE,
                    [a \in 1..job.tracks_map.num_tracks |->
                        [reference |-> TRUE, tracked |-> TRUE, pos |-> Centre]])
       IN  /\ job' = r.context
           /\ crashed' = r.fault
    /\ merged' = NoMerge
    /\ UNCHANGED <<live, tracking_clipboard, stepped, edit, added, dopesheet_ok>>

\* BKE_tracking_context_sync; reuse tells whether the copies take the blocks
\* of the originals freed by the merge
ContextSync ==
    \E reuse \in BOOLEAN :
        /\ ~crashed
        /\ LET r == BKE_tracking_context_sync(job, live, reuse)
           IN  /\ live' = r.tracking
               /\ job' = r.context
               /\ crashed' = r.fault
               /\ added' = (added \cap LiveAddrs(r.tracking))
                               \ HashAddrs(r.context.tracks_map)
        /\ merged' = [ran |-> TRUE, context |-> job, added |-> added,
                      edit |-> edit, tracking |-> live]
        /\ edit' = [NoEdit EXCEPT !.n = edit.n]
        /\ BKE_tracking_dopesheet_tag_update
        /\ UNCHANGED <<tracking_clipboard, stepped>>

MergeNext ==
    \/ UserTrackAdd
    \/ UserTrackDelete
    \/ UserSelect
    \/ UserDeselect
    \/ UserMarkerInsert
    \/ UserMarkerDelete
    \/ UserPaste
    \/ UserObjectAdd
    \/ UserObjectDelete
    \/ JobStep
    \/ ContextSync


(***************************************************************************)
(* The caches as a state machine: markers of a track are changed, two      *)
(* tracks are joined and a context is synchronised, while the dopesheet    *)
(* and the stabilization are asked for, which fills their caches.  "last"  *)
(* keeps the last call.                                                    *)
(***************************************************************************)
\* the join of the caches: both tracks with enabled markers on every frame
CacheJoinShapes == {[f \in JoinFrames |-> "enabled"]}

\* the most calls but the synchronisation, which is made once
MaxCacheCalls == 3

CacheCall(op) == last' = [NoCall EXCEPT !.op = op]

CacheCount ==
    /\ ~fault /\ ~crashed
    /\ edit.n < MaxCacheCalls
    /\ edit' = [edit EXCEPT !.n = @ + 1]

CacheStore ==
    /\ CacheCount
    /\ StoreNext
    /\ UNCHANGED <<joinVars, dopesheet_ok, live, tracking_clipboard, job,
                   stepped, merged, crashed, added, fork, solve>>

CacheJoin ==
    /\ CacheCount
    /\ TracksJoin
    /\ CacheCall("join")
    /\ UNCHANGED <<track, fault, live, tracking_clipboard, job, stepped,
                   merged, crashed, added, fork, solve>>

CacheSync ==
    /\ ~fault
    /\ ~merged.ran
    /\ ContextSync
    /\ CacheCall("sync")
    /\ UNCHANGED <<track, fault, joinVars, fork, solve>>

\* BKE_tracking_dopesheet_update, in a build that wraps and in one that
\* traps when an int overflows
DopesheetUpdate ==
    \E trap \in BOOLEAN :
        /\ CacheCount
        /\ live' = BKE_tracking_dopesheet_update(live, dopesheet_ok, trap).tracking
        /\ dopesheet_ok' = BKE_tracking_dopesheet_update(live, dopesheet_ok, trap).ok
        /\ crashed' = BKE_tracking_dopesheet_update(live, dopesheet_ok, trap).fault
        /\ CacheCall("dopesheet_update")
        /\ UNCHANGED <<track, fault, joinVars, tracking_clipboard, job,
                       stepped, merged, added, fork, solve>>

\* stabilization_calculate_autoscale_factor and
\* BKE_tracking_stabilization_data_get
StabilizationAutoscale ==
    /\ CacheCount
    /\ live' = [live EXCEPT !.stabilization_ok = TRUE]
    /\ CacheCall("autoscale")
    /\ UNCHANGED <<track, fault, joinVars, dopesheet_ok, tracking_clipboard,
                   job, stepped, merged, crashed, added, fork, solve>>

CacheNext ==
    \/ CacheStore
    \/ CacheJoin
    \/ CacheSync
    \/ DopesheetUpdate
    \/ StabilizationAutoscale


(***************************************************************************)
(* The objects as a state machine: after BKE_tracking_settings_init        *)
(* objects are added and deleted, the camera object among them.  "edit"    *)
(* keeps the last call, "object_delete_refused" when the delete has        *)
(* returned FALSE.                                                         *)
(***************************************************************************)
\* the most calls and the most objects of the list
MaxObjectCalls == 4
MaxObjectList == 4

ObjectNames == {TrackName("Object", 0), TrackName("Camera", 0)}

\* the clip after BKE_tracking_settings_init, with one track of the camera
\* that is the active track or not
ObjectInit ==
    \E active \in BOOLEAN, ok \in BOOLEAN :
        /\ live = [BKE_tracking_settings_init(Settings("KEYFRAME")) EXCEPT
              !.tracks = BKE_tracking_track_add(
                             Settings("KEYFRAME"), <<>>, 1, Centre, 1),
              !.act_track = IF active THEN 1 ELSE NULL]
        /\ dopesheet_ok = ok
        /\ tracking_clipboard = <<>>
        /\ job = NoContext
        /\ stepped = NoStep
        /\ merged = NoMerge
        /\ crashed = FALSE
        /\ edit = NoEdit
        /\ added = {}
        /\ fork = NoFork
        /\ solve = NoSolve

ObjectCall(kind) ==
    /\ ~crashed
    /\ edit.n < MaxObjectCalls
    /\ edit' = [n |-> edit.n + 1, kind |-> kind, addr |-> NULL, framenr |-> 0]
    /\ UNCHANGED <<tracking_clipboard, job, stepped, merged, added, fork, solve>>

\* BKE_tracking_object_add
ObjectAdd ==
    \E name \in ObjectNames :
        /\ Len(live.objects) < MaxObjectList
        /\ ObjectCall("object_add")
        /\ live' = BKE_tracking_object_add(live, name)
        /\ BKE_tracking_dopesheet_tag_update
        /\ UNCHANGED crashed

\* BKE_tracking_object_delete of an object of the list
ObjectDelete ==
    \E k \in 1..Len(live.objects) :
        LET r == BKE_tracking_object_delete(live, k)
        IN  /\ ObjectCall(IF r.ok THEN "object_delete"
                          ELSE "object_delete_refused")
            /\ live' = r.tracking
            /\ dopesheet_ok' = (dopesheet_ok /\ ~r.ok)
            /\ UNCHANGED crashed

\* BKE_tracking_dopesheet_update, in a build that wraps and in one that
\* traps when an int overflows
ObjectDopesheetUpdate ==
    \E trap \in BOOLEAN :
        /\ ~dopesheet_ok
        /\ ObjectCall("dopesheet_update")
        /\ live' = BKE_tracking_dopesheet_update(live, dopesheet_ok, trap).tracking
        /\ dopesheet_ok' = BKE_tracking_dopesheet_update(live, dopesheet_ok, trap).ok
        /\ crashed' = BKE_tracking_dopesheet_update(live, dopesheet_ok, trap).fault

ObjectNext ==
    \/ ObjectAdd
    \/ ObjectDelete
    \/ ObjectDopesheetUpdate


(***************************************************************************)
(* The reconstruction with the user at work: between                       *)
(* BKE_tracking_reconstruction_context_new and                             *)
(* BKE_tracking_reconstruction_finish the user adds tracks to the list of  *)
(* the camera and deletes tracks of it.  The solver gives for the track    *)
(* number tracknr of libmv_tracks_new no point, or the point at tracknr    *)
(* + 1 with the error tracknr + 1.                                         *)
(***************************************************************************)
SolveEditShapes == {<<>>, <<<<1, {}>>>>}

SolveEditPoints(tracknr) ==
    {NoPoint, [has |-> TRUE, pos |-> tracknr + 1, error |-> tracknr + 1]}

SolveEditPose == [has |-> TRUE, mat |-> [a |-> 1, b |-> 1], error |-> 1]

SolveEditInit ==
    \E n \in 1..StepTracks :
      \E shapes \in [1..n -> SolveEditShapes] :
        /\ live = SolveClip(shapes)
        /\ solve = [NoSolve EXCEPT !.object = [keyframe1 |-> 1, keyframe2 |-> 3]]
        /\ tracking_clipboard = <<>>
        /\ job = NoContext
        /\ stepped = NoStep
        /\ merged = NoMerge
        /\ crashed = FALSE
        /\ edit = NoEdit
        /\ added = {}
        /\ fork = NoFork

SolveEditContextNew ==
    /\ SolveContextNew
    /\ UNCHANGED <<tracking_clipboard, job, stepped, merged, crashed, edit,
                   added, fork>>

\* BKE_tracking_reconstruction_solve
SolveEditSolve ==
    \E points \in [1..solve.context.tracks_map.num_tracks -> 
                      UNION {SolveEditPoints(a) : a \in 0..(StepTracks - 1)}] :
        /\ solve.op = "context"
        /\ \A a \in DOMAIN points : points[a] \in SolveEditPoints(a - 1)
        /\ solve' = [solve EXCEPT
              !.op = "solved",
              !.context = BKE_tracking_reconstruction_solve(
                              @, [points |-> points,
                                  cameras |-> [f \in solve.context.sfra
                                                   ..solve.context.efra |->
                                                  SolveEditPose],
                                  error |-> 3],
                              1, 3)]
        /\ UNCHANGED <<live, dopesheet_ok, tracking_clipboard, job, stepped,
                       merged, crashed, edit, added, fork>>

SolveEditFinish ==
    /\ SolveFinish
    /\ UNCHANGED <<tracking_clipboard, job, stepped, merged, crashed, edit,
                   added, fork>>

\* the addresses some pointer holds while the context is there
SolveEditHeld ==
    LiveAddrs(live) \cup HashAddrs(solve.context.tracks_map)
        \cup {live.act_track, live.rot_track}

\* what every edit of the user has in common: the context is there
SolveEdit(kind, addr) ==
    /\ solve.op \in {"context", "solved"}
    /\ edit.n < MaxEdits
    /\ edit' = [n |-> edit.n + 1, kind |-> kind, addr |-> addr, framenr |-> 0]
    /\ UNCHANGED <<solve, dopesheet_ok, tracking_clipboard, job, stepped,
                   merged, crashed, fork>>

\* BKE_tracking_track_add on the list of the camera; the allocator returns
\* an address nothing holds or the address of a freed track
SolveEditTrackAdd ==
    \E addr \in {FreshAddr(SolveEditHeld)}
                    \cup (SolveEditHeld \ (LiveAddrs(live) \cup {NULL})) :
        /\ Len(live.tracks) < MaxLive
        /\ SolveEdit("track_add", addr)
        /\ live' = [live EXCEPT
                       !.tracks = BKE_tracking_track_add(
                                      live.settings, @, addr, Centre, SolveFrame)]
        /\ added' = added \cup {addr}

\* a track is deleted: BKE_tracking_track_free and BLI_freelinkN
SolveEditTrackDelete ==
    \E k \in 1..Len(live.tracks) :
        /\ SolveEdit("track_delete", live.tracks[k].addr)
        /\ live' = [live EXCEPT !.tracks = RemoveAt(@, k)]
        /\ added' = added \ {live.tracks[k].addr}

SolveEditNext ==
    \/ SolveEditContextNew
    \/ SolveEditSolve
    \/ SolveEditFinish
    \/ SolveEditTrackAdd
    \/ SolveEditTrackDelete

(***************************************************************************)
(* The dopesheet as a state machine: a clip with tracks of any arrangement *)
(* of enabled and disabled markers and gaps, the dopesheet with any flags  *)
(* and sort method; the dopesheet is updated and tagged, and the user      *)
(* hides a track or deletes a marker.                                      *)
(***************************************************************************)
\* the clip frame the tracks of the dopesheet machine are added on
DopeFrame == 3

\* the markers a track has besides the one of DopeFrame, as in Shapes
DopeShapes ==
    {<<>>,
     <<<<1, {}>>>>,
     <<<<2, {}>>>>,
     <<<<1, {"DISABLED"}>>, <<2, {}>>>>,
     <<<<-1, {}>>, <<1, {}>>>>,
     <<<<0, {"DISABLED"}>>>>,
     <<<<-2, {}>>, <<1, {}>>, <<2, {}>>>>,
     <<<<-2, {}>>, <<-1, {}>>, <<1, {}>>, <<2, {"DISABLED"}>>>>}

\* the number of tracks of the first shape: up to the two thresholds of
\* coverage_from_count
DopeCopies == {1, 8, 16}

\* the flag and the sort method of the dopesheet
DopeSettings ==
    {[flag |-> {}, sort_method |-> "NAME"],
     [flag |-> {"SORT_INVERSE"}, sort_method |-> "NAME"],
     [flag |-> {"SHOW_HIDDEN"}, sort_method |-> "LONGEST"],
     [flag |-> {"SELECTED_ONLY", "SORT_INVERSE"}, sort_method |-> "TOTAL"],
     [flag |-> {}, sort_method |-> "AVERAGE_ERROR"]}

\* the user makes at most MaxDopeEdits edits and the dopesheet is updated
\* or tagged at most MaxDopeCalls times; a track has at most MaxDopeMarkers
\* markers
MaxDopeEdits == 1
MaxDopeMarkers == 5
MaxDopeCalls == 2

\* the shapes of the tracks of a clip: copies tracks of the first shape,
\* then one track for each of the other shapes
DopeClipShapes(shapes, copies) ==
    IF Len(shapes) = 0 THEN shapes
    ELSE [k \in 1..copies |-> shapes[1]] \o Tail(shapes)

DopeInit ==
    \E n \in 0..2, copies \in DopeCopies, ds \in DopeSettings :
      \E shapes \in [1..n -> DopeShapes] :
        /\ copies = 1 \/ (n > 0 /\ ds.flag = {} /\ ds.sort_method = "NAME")
        /\ live = [ShapedTracks(
                       BKE_tracking_settings_init(Settings("KEYFRAME")),
                       DopeClipShapes(shapes, copies), 1, DopeFrame, 1)
                   EXCEPT !.dopesheet.flag = ds.flag,
                          !.dopesheet.sort_method = ds.sort_method]
        /\ dopesheet_ok = FALSE
        /\ tracking_clipboard = <<>>
        /\ job = NoContext
        /\ stepped = NoStep
        /\ merged = NoMerge
        /\ crashed = FALSE
        /\ edit = NoEdit
        /\ added = {}
        /\ fork = NoFork
        /\ solve = NoSolve

\* a call or an edit is recorded in edit: n counts the edits and framenr
\* the calls
DopeCall(kind, edits, calls) ==
    /\ ~crashed
    /\ edit.n + edits <= MaxDopeEdits
    /\ edit.framenr + calls <= MaxDopeCalls
    /\ edit' = [n |-> edit.n + edits, kind |-> kind, addr |-> NULL,
                framenr |-> edit.framenr + calls]
    /\ UNCHANGED <<tracking_clipboard, job, stepped, merged, added, fork, solve>>

\* BKE_tracking_dopesheet_update, in a build that wraps and in one that
\* traps when an int overflows
DopeUpdate ==
    \E trap \in BOOLEAN :
        /\ DopeCall("update", 0, 1)
        /\ live' = BKE_tracking_dopesheet_update(live, dopesheet_ok, trap).tracking
        /\ dopesheet_ok' = BKE_tracking_dopesheet_update(live, dopesheet_ok, trap).ok
        /\ crashed' = BKE_tracking_dopesheet_update(live, dopesheet_ok, trap).fault

DopeTagUpdate ==
    /\ DopeCall("tag_update", 0, 1)
    /\ BKE_tracking_dopesheet_tag_update
    /\ UNCHANGED <<live, crashed>>

\* the user hides the first or the last track of the list
DopeHide ==
    \E k \in {1, Len(live.tracks)} \cap (1..Len(live.tracks)) :
        /\ DopeCall("hide", 1, 0)
        /\ live' = [live EXCEPT
                       !.tracks[k] = BKE_tracking_track_flag_set(
                                         @, {"POINT"}, "HIDDEN")]
        /\ UNCHANGED <<dopesheet_ok, crashed>>

\* the user deletes a marker of the last track of the list with
\* BKE_tracking_marker_delete
DopeMarkerDelete ==
    \E a \in 1..MaxDopeMarkers :
        /\ DopeCall("marker_delete", 1, 0)
        /\ Len(live.tracks) >= 1
        /\ a <= markersnr(live.tracks[Len(live.tracks)])
        /\ live' = [live EXCEPT
                       !.tracks[Len(live.tracks)] =
                           BKE_tracking_marker_delete(@, @.markers[a].framenr)]
        /\ UNCHANGED <<dopesheet_ok, crashed>>

DopeNext ==
    \/ DopeUpdate
    \/ DopeTagUpdate
    \/ DopeHide
    \/ DopeMarkerDelete

(***************************************************************************)
(* The life of a context as a state machine: BKE_tracking_context_new on a *)
(* clip whose tracks have any flags and markers, then steps, syncs and the *)
(* free of the context in any order.                                       *)
(***************************************************************************)
\* tracks_map_free: the hash of the map is read first, whatever the map is
tracks_map_free(map) == [fault |-> map.null]

\* BKE_tracking_context_free: [fault]
BKE_tracking_context_free(context) == tracks_map_free(context.tracks_map)

\* a context is there: BKE_tracking_context_new has returned one and it is
\* not freed
LifeContext == job # NoContext

\* the context is made once
LifeNew ==
    /\ edit.n = 0
    /\ ContextNew
    /\ UNCHANGED <<storeVars, clampVars, joinVars, solve>>

LifeStep ==
    /\ LifeContext
    /\ ContextStep
    /\ UNCHANGED <<storeVars, clampVars, joinVars, fork, solve>>

LifeSync ==
    /\ LifeContext
    /\ ~merged.ran
    /\ ContextSync
    /\ UNCHANGED <<storeVars, clampVars, joinVars, fork, solve>>

LifeFree ==
    /\ LifeContext /\ ~crashed
    /\ crashed' = BKE_tracking_context_free(job).fault
    /\ job' = NoContext
    /\ edit' = [NoEdit EXCEPT !.n = edit.n + 1, !.kind = "context_free"]
    /\ UNCHANGED <<storeVars, clampVars, joinVars, dopesheet_ok, live,
                   tracking_clipboard, stepped, merged, added, fork, solve>>

LifeNext ==
    \/ LifeNew
    \/ LifeStep
    \/ LifeSync
    \/ LifeFree

(***************************************************************************)
(* Stabilization as a state machine: a clip of one or two tracks whose     *)
(* markers lie on the frames 1..StabFrames, BKE_tracking_stabilization_-   *)
(* data_get for any frame, and the user moving a marker of the first track. *)
(***************************************************************************)
StabWidth == 8
StabHeight == 4
StabFrames == 3
MaxStabEdits == 1

StabCentre == <<StabWidth \div 2, StabHeight \div 2>>

StabPositions == {StabCentre, <<3, 2>>, <<6, 3>>, <<4, 1>>, <<0, 2>>}

\* the positions of the first track on the frames 1..StabFrames
StabPaths == {<<StabCentre, p, q>> : p, q \in StabPositions}

\* the second track: none, or its flag and its positions
StabSecond ==
    {<<>>}
        \cup {<<flag, path>> :
                flag \in {{}, {"USE_2D_STAB"}},
                path \in {<<StabCentre, StabCentre, StabCentre>>,
                          <<StabCentre, <<5, 2>>, StabCentre>>,
                          <<<<3, 1>>, StabCentre, StabCentre>>}}

StabSettings ==
    {[NoStabilization EXCEPT !.flag = {"2D_STABILIZATION", "AUTOSCALE"},
                             !.maxscale = maxscale] :
         maxscale \in {Float(0, 1), Float(3, 2), Float(2, 1), Float(4, 1)}}
        \cup {[NoStabilization EXCEPT !.flag = flag] :
                flag \in {{}, {"2D_STABILIZATION"}}}
        \cup {[NoStabilization EXCEPT
                  !.flag = {"2D_STABILIZATION", "AUTOSCALE"},
                  !.scaleinf = inf[1], !.locinf = inf[2]] :
                inf \in {<<0, 1>>, <<1, 0>>}}

\* the track t with a marker at path[i] on every frame i from frame i on
RECURSIVE StabTrack(_, _, _)
StabTrack(t, path, i) ==
    IF i > Len(path) THEN t
    ELSE StabTrack(
             BKE_tracking_marker_insert(
                 t, [t.markers[1] EXCEPT !.framenr = i, !.pos = path[i]]),
             path, i + 1)

StabTracks(settings, path, second) ==
    LET one == [BKE_tracking_track_add(settings, <<>>, FreshAddr({}),
                                       path[1], 1)
                EXCEPT ![1] = [StabTrack(@, path, 2)
                               EXCEPT !.flag = {"USE_2D_STAB"}]]
    IN  IF second = <<>> THEN one
        ELSE [BKE_tracking_track_add(settings, one,
                                     FreshAddr(ListAddrs(one)),
                                     second[2][1], 1)
              EXCEPT ![2] = [StabTrack(@, second[2], 2)
                             EXCEPT !.flag = second[1]]]

StabInit ==
    \E path \in StabPaths, second \in StabSecond, stab \in StabSettings :
        /\ live = [BKE_tracking_settings_init(Settings("KEYFRAME")) EXCEPT
                      !.tracks = StabTracks(Settings("KEYFRAME"), path, second),
                      !.stabilization = stab]
        /\ tracking_clipboard = <<>>
        /\ job = NoContext
        /\ stepped = NoStep
        /\ merged = NoMerge
        /\ crashed = FALSE
        /\ edit = NoEdit
        /\ added = {}
        /\ fork = NoFork
        /\ solve = NoSolve

StabDataGet ==
    \E framenr \in 1..StabFrames :
        LET r == BKE_tracking_stabilization_data_get(
                     live, framenr, StabWidth, StabHeight)
        IN  /\ ~crashed
            /\ crashed' = r.fault
            /\ live' = r.tracking
            /\ edit' = [edit EXCEPT !.kind = "data_get", !.framenr = framenr]
            /\ UNCHANGED dopesheet_ok

StabMarkerInsert ==
    \E framenr \in 2..StabFrames, pos \in StabPositions :
        /\ ~crashed
        /\ edit.n < MaxStabEdits
        /\ live' = [live EXCEPT
                       !.tracks[1] =
                           BKE_tracking_marker_insert(
                               @, [@.markers[1] EXCEPT !.framenr = framenr,
                                                       !.pos = pos])]
        /\ edit' = [edit EXCEPT !.n = @ + 1, !.kind = "marker_insert",
                                !.framenr = framenr]
        /\ BKE_tracking_dopesheet_tag_update
        /\ UNCHANGED crashed

StabNext ==
    /\ \/ StabDataGet
       \/ StabMarkerInsert
    /\ UNCHANGED <<tracking_clipboard, job, stepped, merged, added, fork,
                   solve>>


vars == <<track, fault, last, cmarker, cevent, centry,
          jdst, jsrc, jentry, jdone, dopesheet_ok,
          live, tracking_clipboard, job, stepped, merged, crashed, edit, added,
          fork, solve>>

Init ==
    StoreInit /\ ClampIdle /\ JoinIdle /\ TrackingIdle /\ dopesheet_ok = TRUE

Next ==
    StoreNext /\ UNCHANGED <<clampVars, joinVars, trackingVars, dopesheet_ok>>

Spec == Init /\ [][Next]_vars

InitClamp ==
    ClampInit /\ StoreIdle /\ JoinIdle /\ TrackingIdle /\ dopesheet_ok = TRUE

NextClamp ==
    MarkerClamp /\ UNCHANGED <<storeVars, joinVars, trackingVars, dopesheet_ok>>

SpecClamp == InitClamp /\ [][NextClamp]_vars

InitJoin ==
    JoinInit /\ StoreIdle /\ ClampIdle /\ TrackingIdle /\ dopesheet_ok = TRUE

NextJoin == TracksJoin /\ UNCHANGED <<storeVars, clampVars, trackingVars>>

InitStep ==
    StepInit /\ StoreIdle /\ ClampIdle /\ JoinIdle /\ dopesheet_ok = TRUE

NextStep ==
    ContextStep /\ UNCHANGED <<storeVars, clampVars, joinVars, fork, solve>>

SpecStep == InitStep /\ [][NextStep]_vars

InitNew ==
    NewInit /\ StoreIdle /\ ClampIdle /\ JoinIdle /\ dopesheet_ok = TRUE

NextNew == ContextNew /\ UNCHANGED <<storeVars, clampVars, joinVars, solve>>

SpecNew == InitNew /\ [][NextNew]_vars

NextFork == ForkNext /\ UNCHANGED <<storeVars, clampVars, joinVars, solve>>

InitFork ==
    ForkInit /\ StoreIdle /\ ClampIdle /\ JoinIdle /\ dopesheet_ok = TRUE

SpecFork == InitFork /\ [][NextFork]_vars

InitSolve ==
    SolveInit /\ StoreIdle /\ ClampIdle /\ JoinIdle /\ dopesheet_ok = TRUE

NextSolve == SolveNext /\ UNCHANGED <<storeVars, clampVars, joinVars>>

SpecSolve == InitSolve /\ [][NextSolve]_vars

InitCheck ==
    CheckInit /\ StoreIdle /\ ClampIdle /\ JoinIdle /\ dopesheet_ok = TRUE

NextCheck == ReconstructionCheck /\ UNCHANGED <<storeVars, clampVars, joinVars>>

SpecCheck == InitCheck /\ [][NextCheck]_vars

InitCamera ==
    CameraInit /\ StoreIdle /\ ClampIdle /\ JoinIdle /\ dopesheet_ok = TRUE

NextCamera == CameraQuery /\ UNCHANGED <<storeVars, clampVars, joinVars>>

SpecCamera == InitCamera /\ [][NextCamera]_vars

InitCache ==
    /\ StoreInit /\ ClampIdle /\ JoinInitOf(CacheJoinShapes)
    /\ MergeInitOf({FALSE}, {FALSE})
    /\ dopesheet_ok = TRUE

NextCache == CacheNext /\ UNCHANGED clampVars

SpecCache == InitCache /\ [][NextCache]_vars

InitObject == ObjectInit /\ StoreIdle /\ ClampIdle /\ JoinIdle

NextObject == ObjectNext /\ UNCHANGED <<storeVars, clampVars, joinVars>>

SpecObject == InitObject /\ [][NextObject]_vars

InitSolveEdit ==
    SolveEditInit /\ StoreIdle /\ ClampIdle /\ JoinIdle /\ dopesheet_ok = TRUE

NextSolveEdit == SolveEditNext /\ UNCHANGED <<storeVars, clampVars, joinVars>>

SpecSolveEdit == InitSolveEdit /\ [][NextSolveEdit]_vars

InitDope == DopeInit /\ StoreIdle /\ ClampIdle /\ JoinIdle

NextDope == DopeNext /\ UNCHANGED <<storeVars, clampVars, joinVars>>

SpecDope == InitDope /\ [][NextDope]_vars

InitLife ==
    NewInit /\ StoreIdle /\ ClampIdle /\ JoinIdle /\ dopesheet_ok = TRUE

SpecLife == InitLife /\ [][LifeNext]_vars

InitStab ==
    StabInit /\ StoreIdle /\ ClampIdle /\ JoinIdle /\ dopesheet_ok = TRUE

NextStab == StabNext /\ UNCHANGED <<storeVars, clampVars, joinVars>>

SpecStab == InitStab /\ [][NextStab]_vars

InitMerge ==
    MergeInit /\ StoreIdle /\ ClampIdle /\ JoinIdle /\ dopesheet_ok = TRUE

NextMerge ==
    MergeNext /\ UNCHANGED <<storeVars, clampVars, joinVars, fork, solve>>

SpecMerge == InitMerge /\ [][NextMerge]_vars

SpecJoin == InitJoin /\ [][NextJoin]_vars

(***************************************************************************)
(* Claims about the marker store, checked under Spec.                      *)
(***************************************************************************)
ClearActions == {"TRACK_CLEAR_REMAINED", "TRACK_CLEAR_UPTO", "TRACK_CLEAR_ALL"}

SortedMarkers(ms) ==
    \A i \in 1..(Len(ms) - 1) : ms[i].framenr < ms[i + 1].framenr

\* C1: after any sequence of insert, delete, ensure and path_clear calls the
\* marker array of the track is sorted strictly ascending by frame number,
\* so no frame occurs twice.
C1_MarkersSorted == SortedMarkers(track.markers)

\* C1 witness: a path_clear has just run and left at least three markers.
C1_Witness ==
    /\ last.op \in ClearActions
    /\ markersnr(track) >= 3
    /\ ~fault

\* the index BKE_tracking_marker_get is specified to return on a track with
\* markers: the marker of the frame, else the last marker before the frame,
\* else the first marker
NearestIndex(ms, framenr) ==
    IF \E i \in 1..Len(ms) : ms[i].framenr = framenr
    THEN (CHOOSE i \in 1..Len(ms) : ms[i].framenr = framenr) - 1
    ELSE IF \A i \in 1..Len(ms) : ms[i].framenr > framenr
    THEN 0
    ELSE (CHOOSE i \in 1..Len(ms) :
              /\ ms[i].framenr < framenr
              /\ \A j \in 1..Len(ms) :
                    ms[j].framenr < framenr => ms[j].framenr <= ms[i].framenr) - 1

\* C7: on a track with at least one marker BKE_tracking_marker_get returns,
\* for every query frame, a non-null marker: the marker of the frame, else
\* the marker with the greatest frame below it, else the first marker; and
\* the marker returned is the same for every value of the last_marker hint.
C7_MarkerGetNearest ==
    /\ (last.op = "get" /\ markersnr(track) > 0) =>
            /\ ~last.null
            /\ last.idx = NearestIndex(track.markers, last.framenr)
    /\ markersnr(track) > 0 =>
            \A framenr \in FrameRange, hint \in 0..(markersnr(track) + 1) :
                LET g == BKE_tracking_marker_get(
                             [track EXCEPT !.last_marker = hint], framenr)
                IN  ~g.null /\ g.idx = NearestIndex(track.markers, framenr)

\* C7 witness: a get has just answered with the nearest marker to the left
\* of a frame that has no marker, on a track whose hint is out of range.
C7_Witness ==
    /\ last.op = "get"
    /\ markersnr(track) >= 2
    /\ track.last_marker >= markersnr(track)
    /\ last.idx >= 1
    /\ track.markers[last.idx + 1].framenr < last.framenr

\* C8 as stated: after any sequence of insert, delete, ensure, get and
\* path_clear calls, last_marker < markersnr.
C8_HintInRange == track.last_marker < markersnr(track)

\* C8 amended: right after an insert, and right after an ensure or a
\* path_clear on a track that has markers, last_marker < markersnr; a delete
\* leaves the hint as it was, so it may then be out of range.
C8_HintInRangeAfterInsert ==
    (/\ last.op \in {"insert", "ensure"} \cup ClearActions
     /\ ~fault
     /\ markersnr(track) > 0) => track.last_marker < markersnr(track)

\* C8 witness: a path_clear has just cut the track and set the hint to the
\* bracket marker it put last.
C8_Witness ==
    /\ last.op = "TRACK_CLEAR_REMAINED"
    /\ markersnr(track) >= 3
    /\ track.last_marker = markersnr(track) - 1

(***************************************************************************)
(* Claims about the marker clamp, checked under SpecClamp.                 *)
(***************************************************************************)
SearchHoldsPattern(marker) ==
    \A a \in Axes :
        /\ marker.search_min[a] <= BKE_tracking_marker_pattern_minmax(marker).min[a]
        /\ marker.search_max[a] >= BKE_tracking_marker_pattern_minmax(marker).max[a]

PatternFitsSearch(marker) ==
    \A a \in Axes :
        BKE_tracking_marker_pattern_minmax(marker).max[a]
            - BKE_tracking_marker_pattern_minmax(marker).min[a]
        <= marker.search_max[a] - marker.search_min[a]

\* C9 as stated: for every marker and each of the four clamp events, after
\* BKE_tracking_marker_clamp the search window holds the bounding box of the
\* pattern on both axes.
C9_ClampContains == cevent # "none" => SearchHoldsPattern(cmarker)

\* C9 amended: after CLAMP_PAT_DIM and CLAMP_SEARCH_DIM the search window
\* holds the bounding box of the pattern for every marker; after
\* CLAMP_PAT_POS and CLAMP_SEARCH_POS it does when, on entry, the bounding
\* box of the pattern is no larger than the search window on either axis
\* (both events only translate, neither resizes).
C9_ClampContainsWhenFits ==
    (/\ cevent # "none"
     /\ \/ cevent \in {"CLAMP_PAT_DIM", "CLAMP_SEARCH_DIM"}
        \/ PatternFitsSearch(centry))
    => SearchHoldsPattern(cmarker)

\* C9 witness: a position clamp has just moved the pattern of a marker, whose
\* pattern had left the search window, back into the window.
C9_Witness ==
    /\ cevent = "CLAMP_PAT_POS"
    /\ PatternFitsSearch(centry)
    /\ ~SearchHoldsPattern(centry)
    /\ cmarker.pattern_corners # centry.pattern_corners
    /\ SearchHoldsPattern(cmarker)

(***************************************************************************)
(* Claims about the join of two tracks, checked under SpecJoin.            *)
(***************************************************************************)
HasAt(ms, framenr) == \E i \in 1..Len(ms) : ms[i].framenr = framenr
At(ms, framenr) == ms[CHOOSE i \in 1..Len(ms) : ms[i].framenr = framenr]
EnabledAt(ms, framenr) == HasAt(ms, framenr) /\ ~Disabled(At(ms, framenr))
BothEnabledAt(framenr) ==
    EnabledAt(jentry, framenr) /\ EnabledAt(jsrc.markers, framenr)

\* first and last frame of the maximal run of frames around framenr at which
\* both tracks hold an enabled marker
RECURSIVE RunStart(_)
RunStart(framenr) ==
    IF BothEnabledAt(framenr - 1) THEN RunStart(framenr - 1) ELSE framenr
RECURSIVE RunEnd(_)
RunEnd(framenr) ==
    IF BothEnabledAt(framenr + 1) THEN RunEnd(framenr + 1) ELSE framenr

\* the position the claim gives the joined marker of a frame of a run:
\* (1 - fac) * dst.pos + fac * src.pos, fac = j / (len - 1), 1/2 for len = 1,
\* and 1 - fac when dst has no enabled marker right before the run
BlendedPos(framenr) ==
    LET s == RunStart(framenr)
        len == RunEnd(framenr) - s + 1
        j == framenr - s
        inverse == ~EnabledAt(jentry, s - 1)
        num == IF len = 1 THEN 1 ELSE IF inverse THEN (len - 1) - j ELSE j
        den == IF len = 1 THEN 2 ELSE len - 1
        d == At(jentry, framenr).pos
        r == At(jsrc.markers, framenr).pos
    IN  [c \in 1..2 |-> ((den - num) * d[c] + num * r[c]) \div den]

\* the marker the claim gives the joined track on a frame
JoinedMarker(framenr) ==
    IF ~HasAt(jsrc.markers, framenr) THEN At(jentry, framenr)
    ELSE IF ~HasAt(jentry, framenr) THEN At(jsrc.markers, framenr)
    ELSE IF BothEnabledAt(framenr)
    THEN [At(jentry, framenr) EXCEPT !.pos = BlendedPos(framenr)]
    ELSE IF EnabledAt(jsrc.markers, framenr) THEN At(jsrc.markers, framenr)
    ELSE At(jentry, framenr)

\* C10: the joined track holds one marker for every frame either track had a
\* marker on, in frame order: at a frame of one track only that track's
\* marker; at a shared frame with a disabled marker the enabled one (dst's
\* when both are disabled); at the j-th frame of a maximal run of len frames
\* both tracks are enabled on, dst's marker at (1-fac)*dst.pos + fac*src.pos
\* with fac = j/(len-1) (1/2 when len = 1), and 1 - fac in place of fac
\* exactly when dst holds no enabled marker on the frame before the run.
C10_JoinBlend ==
    jdone =>
        /\ SortedMarkers(jdst.markers)
        /\ \A f \in JoinFrames :
              HasAt(jdst.markers, f) <=> (HasAt(jentry, f) \/ HasAt(jsrc.markers, f))
        /\ \A i \in 1..Len(jdst.markers) :
              jdst.markers[i] = JoinedMarker(jdst.markers[i].framenr)

\* C10 witness: the join has blended a run of at least three frames that has
\* no enabled marker of dst before it (the inverted factor), and copied a
\* marker that only src had.
C10_Witness ==
    /\ jdone
    /\ \E f \in JoinFrames :
          /\ BothEnabledAt(f) /\ RunStart(f) = f /\ RunEnd(f) >= f + 2
          /\ ~EnabledAt(jentry, f - 1)
          /\ At(jdst.markers, f).pos = At(jsrc.markers, f).pos
    /\ \E f \in JoinFrames : HasAt(jsrc.markers, f) /\ ~HasAt(jentry, f)

(***************************************************************************)
(* Claims about the tracking step, checked under SpecStep.                 *)
(***************************************************************************)
StepDir(context) == IF context.backwards THEN -1 ELSE 1

\* the clip frame k frames ahead, in the direction of the tracking, of the
\* frame the last step started on
StepFrame(k) ==
    BKE_movieclip_remap_scene_to_clip_frame(stepped.context.framenr)
    + k * StepDir(stepped.context)

EntryMarkers(a) == stepped.context.tracks_map.tracks[a].markers
StepMarkers(a) == job.tracks_map.tracks[a].markers

\* the bracket a successful step leaves on snapshot track a
TrackedBracket(a) ==
    /\ HasAt(StepMarkers(a), StepFrame(1))
    /\ "TRACKED" \in At(StepMarkers(a), StepFrame(1)).flag
    /\ "DISABLED" \notin At(StepMarkers(a), StepFrame(1)).flag
    /\ HasAt(StepMarkers(a), StepFrame(2))
    /\ IF HasAt(EntryMarkers(a), StepFrame(2))
       THEN At(StepMarkers(a), StepFrame(2)) = At(EntryMarkers(a), StepFrame(2))
       ELSE "DISABLED" \in At(StepMarkers(a), StepFrame(2)).flag

\* the marker a failed step leaves on snapshot track a
FailedMarker(a) ==
    /\ HasAt(StepMarkers(a), StepFrame(1))
    /\ "DISABLED" \in At(StepMarkers(a), StepFrame(1)).flag

\* the frame is ahead of the frame the context was made on: the tracks have
\* no TRACKED marker there but those the context puts
AheadOfCursor(framenr) ==
    (framenr - BKE_movieclip_remap_scene_to_clip_frame(CursorFrame))
        * StepDir(job) >= 1

\* C2: after a step in which the tracker succeeded for a snapshot track with
\* its marker on frame c, the track holds an enabled TRACKED marker on c+d and
\* a marker on c+2d, the one it had there or else a DISABLED one; after a step
\* in which the tracker failed it holds a DISABLED marker on c+d; and in every
\* state every enabled TRACKED marker the context has put is followed, in
\* the direction of the tracking, by a marker on the next frame.
C2_TrackingBracket ==
    /\ (stepped.ran /\ ~crashed) =>
          \A a \in 1..Len(stepped.outcome) :
              /\ stepped.outcome[a] = "tracked" => TrackedBracket(a)
              /\ stepped.outcome[a] = "failed" => FailedMarker(a)
    /\ \A a \in 1..Len(job.tracks_map.tracks) :
          \A i \in 1..Len(job.tracks_map.tracks[a].markers) :
              LET m == job.tracks_map.tracks[a].markers[i]
              IN  (/\ "TRACKED" \in m.flag /\ "DISABLED" \notin m.flag
                   /\ AheadOfCursor(m.framenr)) =>
                      HasAt(job.tracks_map.tracks[a].markers,
                            m.framenr + StepDir(job))

\* C2 witness: a second step has been made in which the tracker succeeded
\* for one track that had a marker two frames ahead already and failed for
\* another.
C2_Witness ==
    /\ stepped.ran /\ ~crashed /\ job.frames >= 2
    /\ \E a \in 1..Len(stepped.outcome) :
          /\ stepped.outcome[a] = "tracked"
          /\ HasAt(EntryMarkers(a), StepFrame(2))
    /\ \E a \in 1..Len(stepped.outcome) : stepped.outcome[a] = "failed"

\* twice the effective margin of a marker of track t: the larger side of
\* the bounding box of the pattern, or twice the margin of the track
EffectiveMargin2(t, marker) ==
    LET pat == BKE_tracking_marker_pattern_minmax(marker)
    IN  max_ff(max_ff(pat.max[1] - pat.min[1], pat.max[2] - pat.min[2]),
               2 * t.margin)

\* the centre of the marker lies within the effective margin of a border
NearBorder(t, marker) ==
    \E x \in 1..2 :
        \/ 2 * marker.pos[x] < EffectiveMargin2(t, marker)
        \/ 2 * marker.pos[x] > 2 * FrameSize - EffectiveMargin2(t, marker)

\* the last step found an enabled marker of snapshot track a on its frame
\* and the marker failed the margin check
MarginRejected(a) ==
    /\ HasAt(EntryMarkers(a), StepFrame(0))
    /\ "DISABLED" \notin At(EntryMarkers(a), StepFrame(0)).flag
    /\ NearBorder(stepped.context.tracks_map.tracks[a],
                  At(EntryMarkers(a), StepFrame(0)))

TrackedOnDestination(a) ==
    /\ stepped.outcome[a] = "tracked"
    /\ HasAt(StepMarkers(a), StepFrame(1))
    /\ "TRACKED" \in At(StepMarkers(a), StepFrame(1)).flag
    /\ "DISABLED" \notin At(StepMarkers(a), StepFrame(1)).flag

\* C14: BKE_tracking_context_step returns FALSE whenever no snapshot track
\* got a successfully tracked marker on the destination frame in the step.
C14_FalseWhenNothingTracked ==
    (stepped.ran /\ ~crashed) =>
        ((\A a \in 1..Len(stepped.outcome) : ~TrackedOnDestination(a))
            => ~stepped.ok)

\* C14 fails on this input: the tracker fails for every track of the step,
\* each of which had an enabled marker on the current frame, and the step
\* returns TRUE.
C14_AllFailed ==
    /\ stepped.ran /\ ~crashed
    /\ stepped.ok
    /\ Len(stepped.outcome) = StepTracks
    /\ \A a \in 1..Len(stepped.outcome) :
          /\ stepped.outcome[a] = "failed"
          /\ ~NearBorder(stepped.context.tracks_map.tracks[a],
                         At(EntryMarkers(a), StepFrame(0)))

(***************************************************************************)
(* Claims about the merge, checked under SpecMerge.                        *)
(***************************************************************************)
PreMap == merged.context.tracks_map
PostMap == job.tracks_map

\* the list the last merge worked on, before and after it
MergedList == merge_old_tracks(PreMap, merged.tracking).l
PreList == ListOf(merge_old_tracks(PreMap, merged.tracking).tracking, MergedList)
PostList == ListOf(live, MergedList)

\* the track of a list that lives at addr
HasTrackAt(list, addr) == addr \in ListAddrs(list)
TrackAt(list, addr) == list[CHOOSE k \in 1..Len(list) : list[k].addr = addr]

\* t is the original of a snapshot track: the hash points to it, and it is
\* not a track the user has added since on the address of a freed original
IsOriginal(t) == t.addr \in HashAddrs(PreMap) /\ t.addr \notin merged.added

\* t is the copy the merge made of snapshot track a
IsCopyOf(t, a) ==
    /\ t.addr = PostMap.hash[a]
    /\ t.markers = PreMap.tracks[a].markers
    /\ t.name.base = PreMap.tracks[a].name.base

\* C3: after tracks_map_merge the list of the map's object is the tracks
\* that are no original of a snapshot track, untouched and in their order,
\* followed by one copy of each snapshot track, at every merge of the map.
C3_MergeList ==
    (merged.ran /\ ~crashed) =>
        LET kept == SelectSeq(PreList, LAMBDA t : ~IsOriginal(t))
        IN  /\ Len(PostList) = Len(kept) + PreMap.num_tracks
            /\ SubSeq(PostList, 1, Len(kept)) = kept
            /\ \A a \in 1..PreMap.num_tracks :
                  IsCopyOf(PostList[Len(kept) + a], a)

\* C3 fails on this input: the original of the snapshot track is deleted,
\* the user adds a track that is given the freed address, and the merge
\* takes the user's track for the original and drops it.
C3_Dropped ==
    /\ merged.ran /\ ~crashed
    /\ merged.added \cap HashAddrs(PreMap) # {}
    /\ Len(PostList) < Len(PreList) + 1

\* every track of the clip, whichever list holds it
LiveTracks(tracking) ==
    UNION {{ListOf(tracking, l)[i] : i \in 1..Len(ListOf(tracking, l))} :
           l \in Lists(tracking)}

LiveTrackAt(tracking, addr) ==
    CHOOSE t \in LiveTracks(tracking) : t.addr = addr

\* the track that stands for the track at addr after the merge: the copy
\* of the snapshot track whose original it was, or the track itself
Descendant(addr) ==
    IF addr \in HashAddrs(PreMap)
    THEN PostMap.hash[CHOOSE a \in 1..PreMap.num_tracks :
                          PreMap.hash[a] = addr]
    ELSE addr

EditInEffect(e) ==
    LET d == Descendant(e.addr)
    IN  CASE e.kind \in {"select", "deselect", "marker_insert",
                         "marker_delete"} ->
               /\ d \in LiveAddrs(live)
               /\ CASE e.kind = "select" ->
                         TRACK_SELECTED(LiveTrackAt(live, d))
                    [] e.kind = "deselect" ->
                         ~TRACK_SELECTED(LiveTrackAt(live, d))
                    [] e.kind = "marker_insert" ->
                         HasMarkerOn(LiveTrackAt(live, d), e.framenr)
                    [] OTHER ->
                         ~HasMarkerOn(LiveTrackAt(live, d), e.framenr)
          [] e.kind = "track_delete" -> d \notin LiveAddrs(live)
          [] e.kind \in {"track_add", "paste"} -> d \in LiveAddrs(live)
          [] OTHER -> TRUE

HasFound(a) == HasTrackAt(PreList, PreMap.hash[a])
Found(a) == TrackAt(PreList, PreMap.hash[a])

MergeDropped == LiveAddrs(merged.tracking) \ LiveAddrs(live)

C5_PointersRebound ==
    (merged.ran /\ ~crashed) =>
        /\ live.act_track \notin MergeDropped
        /\ live.rot_track \notin MergeDropped
        /\ \A a \in 1..PreMap.num_tracks :
              (HasFound(a) /\ IsOriginal(Found(a))) =>
                  /\ merged.tracking.act_track = PreMap.hash[a]
                        => live.act_track = PostMap.hash[a]
                  /\ merged.tracking.rot_track = PreMap.hash[a]
                        => live.rot_track = PostMap.hash[a]

\* C5 fails on this input: the active track is an original of the camera's
\* map, the user adds an object, which becomes the active one, and the
\* merge frees the original while act_track keeps its address.
C5_Dangling ==
    /\ merged.ran /\ ~crashed
    /\ merged.added = {}
    /\ merged.tracking.objectnr # 0
    /\ live.act_track \in MergeDropped

\* C6: the names of the tracks of a list are pairwise distinct after any
\* sequence of track_add, clipboard_paste_tracks and tracks_map_merge.
C6_NamesUnique ==
    \A l \in Lists(live) :
        \A i, j \in 1..Len(ListOf(live, l)) :
            i # j => ListOf(live, l)[i].name # ListOf(live, l)[j].name

\* a merge whose copy had to be renamed because a track the user added in
\* between had taken the name
C6_Witness ==
    /\ merged.ran /\ ~crashed
    /\ merged.added # {}
    /\ \E a \in 1..PreMap.num_tracks :
          /\ HasTrackAt(PostList, PostMap.hash[a])
          /\ TrackAt(PostList, PostMap.hash[a]).name # PreMap.tracks[a].name

(***************************************************************************)
(* Claims about the parallel step, checked under SpecFork.                 *)
(***************************************************************************)
\* the step of the context the tasks were forked from, its tracks taken one
\* after the other in index order
ForkSequential == BKE_tracking_context_step(fork.entry, TRUE, fork.res)

\* C11: in every interleaving of the tasks of one step, a task that has not
\* started finds its track and its track context as they were on entry, a
\* task that is through the critical section has left its track as the
\* sequential loop leaves it, and after the join the context (the marker
\* arrays of all snapshot tracks) and the value returned are those of the
\* sequential loop.
C11_ForkJoinDeterminism ==
    /\ (fork.on /\ ~crashed) =>
          \A a \in 1..Len(fork.pc) :
              /\ fork.pc[a] = "run" =>
                    /\ job.tracks_map.tracks[a] = fork.entry.tracks_map.tracks[a]
                    /\ job.tracks_map.customdata[a] =
                           fork.entry.tracks_map.customdata[a]
              /\ fork.pc[a] \in {"ok", "done"} =>
                    job.tracks_map.tracks[a] =
                        ForkSequential.context.tracks_map.tracks[a]
    /\ (fork.joined /\ ~crashed) =>
          /\ job = ForkSequential.context
          /\ fork.ok = ForkSequential.ok

\* a second step of two tracks is joined in which the second track got the
\* critical section first, one track was tracked and the other failed
C11_Witness ==
    /\ fork.joined /\ ~crashed
    /\ ~fork.entry.first_time
    /\ fork.order = <<2, 1>>
    /\ fork.tracked[1] # fork.tracked[2]

(***************************************************************************)
(* Claims about the making of a context, checked under SpecNew.            *)
(***************************************************************************)
ContextMade == job # NoContext

CursorMarkerFrame == BKE_movieclip_remap_scene_to_clip_frame(job.framenr)

InSnapshot(t) == t.addr \in HashAddrs(job.tracks_map)

Trackable(t) ==
    TRACK_SELECTED(t) /\ "LOCKED" \notin t.flag /\ "HIDDEN" \notin t.flag

EnabledOnCursor(t) ==
    \E k \in 1..Len(t.markers) :
        /\ t.markers[k].framenr = CursorMarkerFrame
        /\ "DISABLED" \notin t.markers[k].flag

EnabledNearCursor(t) ==
    /\ Len(t.markers) > 0
    /\ "DISABLED" \notin
          t.markers[NearestIndex(t.markers, CursorMarkerFrame) + 1].flag

SolveTracks == ListOf(live, BKE_tracking_object_get_tracks(live, 1))

\* the frames of the enabled markers of the tracks of the clip
EnabledFrames ==
    UNION {{SolveTracks[i].markers[k].framenr :
               k \in {j \in 1..Len(SolveTracks[i].markers) :
                         ~Disabled(SolveTracks[i].markers[j])}} :
           i \in 1..Len(SolveTracks)}

IsLeast(f, S) == f \in S /\ \A g \in S : f <= g
IsGreatest(f, S) == f \in S /\ \A g \in S : g <= f

\* a track whose first enabled marker is the last of its markers
LastMarkerOnly(t) ==
    /\ t.markers # <<>>
    /\ ~Disabled(t.markers[Len(t.markers)])
    /\ \A k \in 1..(Len(t.markers) - 1) : Disabled(t.markers[k])

\* C18: the context of the reconstruction has sfra the least and efra the
\* greatest frame of the enabled markers of the tracks, tracks of a single
\* marker and tracks whose only enabled marker is their last one included.
C18_FrameRange ==
    solve.op = "context" =>
        /\ IsLeast(solve.context.sfra, EnabledFrames)
        /\ IsGreatest(solve.context.efra, EnabledFrames)

\* the context is made for a clip where the earliest enabled marker is the
\* last marker of its track
C18_Witness ==
    /\ solve.op = "context"
    /\ \E i \in 1..Len(SolveTracks) :
          /\ LastMarkerOnly(SolveTracks[i])
          /\ IsLeast(SolveTracks[i].markers[Len(SolveTracks[i].markers)].framenr,
                     EnabledFrames)
          /\ solve.context.sfra # SolveTracks[i].markers[Len(SolveTracks[i].markers)].framenr

\* the greatest frame is right, and the least is right when no track has
\* its first enabled marker last
C18_FrameRangeBut ==
    solve.op = "context" =>
        /\ IsGreatest(solve.context.efra, EnabledFrames)
        /\ (\A i \in 1..Len(SolveTracks) : ~LastMarkerOnly(SolveTracks[i]))
              => IsLeast(solve.context.sfra, EnabledFrames)

\* what the solver gave to the context
SolverOutput == solve.context.reconstruction
SolverPose(a) == libmv_camera(SolverOutput, a)

\* the frames of sfra..efra the solver gave a camera for
SolvedFrames ==
    {a \in solve.context.sfra..solve.context.efra : SolverPose(a).has}

StoredCameras == solve.reconstruction.cameras

\* inverse(M_first), M_first being what the solver gave for the first of
\* the frames it gave a camera for
OriginInverse ==
    invert_m4_m4(
        SolverPose(CHOOSE a \in SolvedFrames : IsLeast(a, SolvedFrames)).mat)

\* C15: after BKE_tracking_reconstruction_finish with a solver that gave a
\* camera for some frame of sfra..efra, the stored cameras are those frames
\* in strictly ascending order, the first stored camera is the identity,
\* every other is inverse(M_first) composed with what the solver gave for
\* its frame, and the point of every track with HAS_BUNDLE is what the
\* solver gave for the track, transformed by inverse(M_first).
C15_ReconstructionOrigin ==
    (solve.op = "finished" /\ SolvedFrames # {}) =>
        /\ solve.reconstruction.camnr = Len(StoredCameras)
        /\ {StoredCameras[i].framenr : i \in 1..Len(StoredCameras)}
               = SolvedFrames
        /\ \A i \in 1..(Len(StoredCameras) - 1) :
              StoredCameras[i].framenr < StoredCameras[i + 1].framenr
        /\ StoredCameras[1].mat = unit_m4
        /\ \A i \in 2..Len(StoredCameras) :
              StoredCameras[i].mat =
                  mul_m4_m4m4(OriginInverse,
                              SolverPose(StoredCameras[i].framenr).mat)
        /\ \A k \in 1..Len(SolveTracks) :
              "HAS_BUNDLE" \in SolveTracks[k].flag =>
                  SolveTracks[k].bundle_pos =
                      mul_v3_m4v3(OriginInverse,
                                  libmv_point(SolverOutput, k - 1).pos)

\* the solver gave two cameras that do not commute, the first not the
\* identity, and a point for a track
C15_Witness ==
    /\ solve.op = "finished"
    /\ Len(StoredCameras) >= 2
    /\ OriginInverse # unit_m4
    /\ StoredCameras[2].mat
           # mul_m4_m4m4(SolverPose(StoredCameras[2].framenr).mat, OriginInverse)
    /\ \E k \in 1..Len(SolveTracks) :
          /\ "HAS_BUNDLE" \in SolveTracks[k].flag
          /\ SolveTracks[k].bundle_pos # libmv_point(SolverOutput, k - 1).pos

\* C16: when BKE_tracking_reconstruction_finish returns FALSE, the cameras,
\* camnr, the error and the RECONSTRUCTED flag of the reconstruction are as
\* they were before the call.
C16_FailureKeepsPrior ==
    (solve.op = "finished" /\ ~solve.ok) =>
        /\ solve.reconstruction.cameras = solve.entry.cameras
        /\ solve.reconstruction.camnr = solve.entry.camnr
        /\ solve.reconstruction.error = solve.entry.error
        /\ ("RECONSTRUCTED" \in solve.reconstruction.flag)
               = ("RECONSTRUCTED" \in solve.entry.flag)

\* the finish has returned FALSE for a clip that had a reconstruction
C16_Witness ==
    /\ solve.op = "finished" /\ ~solve.ok
    /\ solve.entry = PriorReconstruction

\* the tracks of the object with enabled markers on both keyframes
OnBothKeyframes ==
    {i \in 1..Len(SolveTracks) :
        /\ EnabledAt(SolveTracks[i].markers, solve.object.keyframe1)
        /\ EnabledAt(SolveTracks[i].markers, solve.object.keyframe2)}

TooFewTracks ==
    /\ solve.op = "checked"
    /\ "USE_KEYFRAME_SELECTION" \notin solve.settings.reconstruction_flag
    /\ Cardinality(OnBothKeyframes) < 8

QueryCameras == solve.reconstruction.cameras
QueryFrame == solve.query.framenr

\* the query frame is strictly between the cameras a and a + 1
BetweenCameras(a) ==
    /\ a >= 1 /\ a < Len(QueryCameras)
    /\ QueryCameras[a].framenr < QueryFrame
    /\ QueryFrame < QueryCameras[a + 1].framenr

\* the blend of the cameras a and a + 1 for the query frame
BlendOf(a) ==
    [from |-> QueryCameras[a].mat, to |-> QueryCameras[a + 1].mat,
     t |-> <<QueryFrame - QueryCameras[a].framenr,
             QueryCameras[a + 1].framenr - QueryCameras[a].framenr>>]

CopyOf(a) ==
    [from |-> QueryCameras[a].mat, to |-> QueryCameras[a].mat, t |-> <<0, 1>>]

\* what does not depend on the pair: the camera of the frame itself, the
\* end cameras outside the frames of the cameras
QueryEnds ==
    /\ \A a \in 1..Len(QueryCameras) :
          QueryCameras[a].framenr = QueryFrame => solve.query.mat = CopyOf(a)
    /\ (QueryCameras # <<>> /\ QueryFrame < QueryCameras[1].framenr)
          => solve.query.mat = CopyOf(1)
    /\ (QueryCameras # <<>>
           /\ QueryFrame > QueryCameras[Len(QueryCameras)].framenr)
          => solve.query.mat = CopyOf(Len(QueryCameras))

\* C19: BKE_tracking_camera_get_reconstructed_interpolate gives, for a frame
\* strictly between the cameras a and a + 1, the first pair included, the
\* blend of the two with the factor (frame - f_a) / (f_a+1 - f_a); for the
\* frame of a camera that camera; before the first and after the last
\* camera the end camera; whatever last_camera is.
C19_Interpolate ==
    solve.op = "query" =>
        /\ \A a \in 1..(Len(QueryCameras) - 1) :
              BetweenCameras(a) => solve.query.mat = BlendOf(a)
        /\ QueryEnds

\* the camera is asked for a frame between the first two cameras
C19_Witness ==
    /\ solve.op = "query"
    /\ BetweenCameras(1)
    /\ solve.query.mat = CopyOf(1)

\* what holds of the first pair: the first camera is given; of every other
\* pair the blend, whatever last_camera is
C19_InterpolateButFirst ==
    solve.op = "query" =>
        /\ \A a \in 2..(Len(QueryCameras) - 1) :
              BetweenCameras(a) => solve.query.mat = BlendOf(a)
        /\ BetweenCameras(1) => solve.query.mat = CopyOf(1)
        /\ QueryEnds


(***************************************************************************)
(* Claims about the caches.                                                *)
(***************************************************************************)
\* the last call has changed markers of a track of the clip
MarkerMutation ==
    last.op \in {"insert", "delete", "ensure", "join", "sync"} \cup ClearActions

\* C20: after BKE_tracking_marker_insert, BKE_tracking_marker_delete,
\* BKE_tracking_marker_ensure, BKE_tracking_track_path_clear,
\* BKE_tracking_tracks_join and BKE_tracking_context_sync, dopesheet.ok is
\* false and stabilization.ok is false.
C20_MutationInvalidates ==
    (MarkerMutation /\ ~fault /\ ~crashed) =>
        ~dopesheet_ok /\ ~live.stabilization_ok

\* a marker is inserted after the dopesheet and the stabilization were
\* computed, and both caches still count as up to date
C20_Witness ==
    /\ last.op = "insert" /\ ~fault
    /\ dopesheet_ok
    /\ live.stabilization_ok

\* the join and the synchronisation tag the dopesheet
C20_JoinAndSyncTag == last.op \in {"join", "sync"} => ~dopesheet_ok


(***************************************************************************)
(* Claims about the clearing of a path and the track without markers.      *)
(***************************************************************************)
FrameSet(ms) == {ms[i].framenr : i \in 1..Len(ms)}

\* C23: BKE_tracking_track_path_clear with TRACK_CLEAR_ALL leaves three
\* markers: one on ref_frame and a DISABLED one on ref_frame - 1 and on
\* ref_frame + 1, whether the track had a marker on ref_frame or not.
C23_ClearAllAroundRef ==
    (last.op = "TRACK_CLEAR_ALL" /\ ~fault) =>
        /\ markersnr(track) = 3
        /\ track.markers[1].framenr = last.framenr - 1
        /\ Disabled(track.markers[1])
        /\ track.markers[2].framenr = last.framenr
        /\ track.markers[3].framenr = last.framenr + 1
        /\ Disabled(track.markers[3])

\* TRACK_CLEAR_ALL has run for a frame the remaining marker is not on
C23_Witness ==
    /\ last.op = "TRACK_CLEAR_ALL" /\ ~fault
    /\ markersnr(track) = 3
    /\ track.markers[2].framenr # last.framenr

\* what TRACK_CLEAR_ALL leaves for every ref_frame: three markers on
\* consecutive frames, the outer two DISABLED
C23_ClearAllAroundSome ==
    (last.op = "TRACK_CLEAR_ALL" /\ ~fault) =>
        /\ markersnr(track) = 3
        /\ track.markers[1].framenr = track.markers[2].framenr - 1
        /\ Disabled(track.markers[1])
        /\ track.markers[3].framenr = track.markers[2].framenr + 1
        /\ Disabled(track.markers[3])

\* the markers of ms on the frames for which keep(framenr) holds
KeptBefore(ms, ref_frame) ==
    SelectSeq(ms, LAMBDA m : m.framenr <= ref_frame)
KeptAfter(ms, ref_frame) ==
    SelectSeq(ms, LAMBDA m : m.framenr >= ref_frame)

ClearedRemained ==
    /\ \A i \in 1..Len(track'.markers) :
          track'.markers[i].framenr > last'.framenr
              => Disabled(track'.markers[i])
    /\ KeptBefore(track'.markers, last'.framenr)
           = KeptBefore(track.markers, last'.framenr)

ClearedUpto ==
    /\ \A i \in 1..Len(track'.markers) :
          track'.markers[i].framenr < last'.framenr
              => Disabled(track'.markers[i])
    /\ KeptAfter(track'.markers, last'.framenr)
           = KeptAfter(track.markers, last'.framenr)

\* C24: a call of BKE_tracking_track_path_clear on a track with markers
\* leaves, for TRACK_CLEAR_REMAINED, no enabled marker after ref_frame and
\* the markers up to ref_frame as they were; for TRACK_CLEAR_UPTO, no
\* enabled marker before ref_frame and the markers from ref_frame on as
\* they were.
C24_ClearTruncates ==
    [][(~fault /\ ~fault' /\ markersnr(track) > 0) =>
          /\ last'.op = "TRACK_CLEAR_REMAINED" => ClearedRemained
          /\ last'.op = "TRACK_CLEAR_UPTO" => ClearedUpto]_vars

\* a path was cleared up to a frame and an enabled marker is left before it
C24_Witness ==
    /\ last.op = "TRACK_CLEAR_UPTO" /\ ~fault
    /\ \E i \in 1..Len(track.markers) :
          track.markers[i].framenr < last.framenr /\ ~Disabled(track.markers[i])

\* C25: on a track without markers BKE_tracking_marker_get_exact,
\* BKE_tracking_track_has_marker_at_frame and
\* BKE_tracking_track_has_enabled_marker_at_frame tell for every frame that
\* there is no marker, without a fault.
C25_NoDataBenign ==
    (markersnr(track) = 0 /\ ~fault) =>
        \A framenr \in Frames :
            /\ ~BKE_tracking_marker_get_exact(track, framenr).fault
            /\ BKE_tracking_marker_get_exact(track, framenr).null
            /\ ~BKE_tracking_track_has_marker_at_frame(track, framenr).fault
            /\ ~BKE_tracking_track_has_marker_at_frame(track, framenr).has
            /\ ~BKE_tracking_track_has_enabled_marker_at_frame(track, framenr).fault
            /\ ~BKE_tracking_track_has_enabled_marker_at_frame(track, framenr).has

\* the last marker of the track was deleted and the marker of a frame is
\* asked for
C25_Witness ==
    /\ markersnr(track) = 0
    /\ last.op = "get_exact"
    /\ fault


(***************************************************************************)
(* Claims about the objects.                                               *)
(***************************************************************************)
CameraObjects(tracking) ==
    {k \in 1..Len(tracking.objects) : "CAMERA" \in tracking.objects[k].flag}

\* a call of BKE_tracking_object_delete that returns FALSE changes nothing,
\* and one that returns TRUE has not deleted the camera object
ObjectDeleteStep ==
    /\ edit'.kind = "object_delete_refused" =>
          /\ live' = live
          /\ dopesheet_ok' = dopesheet_ok
    /\ edit'.kind = "object_delete" =>
          /\ Len(live'.objects) = Len(live.objects) - 1
          /\ Cardinality(CameraObjects(live')) = Cardinality(CameraObjects(live))

\* C26: BKE_tracking_object_delete on the object with the CAMERA flag
\* returns FALSE and leaves the object list, tot_object, objectnr, act_track
\* and dopesheet.ok as they are; after any sequence of object add and
\* delete calls following BKE_tracking_settings_init exactly one object has
\* the CAMERA flag.
C26_CameraProtected ==
    /\ [](Cardinality(CameraObjects(live)) = 1)
    /\ [](live.tot_object = Len(live.objects))
    /\ [][ObjectDeleteStep]_vars

\* the delete of the camera object was refused while other objects were
\* there, the dopesheet up to date and a track active
C26_Witness ==
    /\ edit.kind = "object_delete_refused"
    /\ Len(live.objects) >= 2
    /\ dopesheet_ok
    /\ live.act_track # NULL

(***************************************************************************)
(* C29: on a context that BKE_tracking_context_new made with no snapshot   *)
(* track, BKE_tracking_context_step returns FALSE and leaves the context   *)
(* as it is, and every call of step, sync and free completes without a     *)
(* fault.  Stated of every step of the machine from a state in which such  *)
(* a context is there.                                                     *)
(***************************************************************************)
EmptyContext(context) ==
    context # NoContext /\ context.tracks_map.num_tracks = 0

EmptyContextCall ==
    (EmptyContext(job) /\ ~crashed)
        => /\ ~crashed'
           /\ (stepped' # stepped => ~stepped'.ok /\ job' = job)

C29_EmptyContextBenign == [][EmptyContextCall]_vars

\* BKE_tracking_context_step has run on a context with no snapshot track
\* and has faulted
C29_Witness ==
    /\ crashed
    /\ stepped.ran
    /\ EmptyContext(stepped.context)
    /\ job = stepped.context
    /\ ~merged.ran

(***************************************************************************)
(* C21: the channel tracking_dopesheet_channels_segments_calc computes for *)
(* a track holds exactly one segment for each maximal run of enabled       *)
(* markers on consecutive frames: tot_segment is the number of runs, the   *)
(* segments written are the runs from their first to their last frame,     *)
(* every enabled marker is in exactly one segment, and as many segments    *)
(* are written as tot_segment counts.  Stated of every update that         *)
(* computes the channels.                                                  *)
(***************************************************************************)
\* the frames the track has an enabled marker on
EnabledFrameSet(t) ==
    {t.markers[a].framenr :
        a \in {b \in 1..markersnr(t) : "DISABLED" \notin t.markers[b].flag}}

\* the maximal runs of consecutive frames with an enabled marker
EnabledRuns(t) ==
    {r \in EnabledFrameSet(t) \X EnabledFrameSet(t) :
        /\ r[1] <= r[2]
        /\ \A f \in r[1]..r[2] : f \in EnabledFrameSet(t)
        /\ r[1] - 1 \notin EnabledFrameSet(t)
        /\ r[2] + 1 \notin EnabledFrameSet(t)}

DopeTrack(tracking, addr) ==
    CHOOSE t \in {tracking.tracks[k] : k \in 1..Len(tracking.tracks)} :
        t.addr = addr

ChannelOfRuns(channel, t) ==
    /\ channel.tot_segment = Cardinality(EnabledRuns(t))
    /\ Len(channel.segments) = channel.tot_segment
    /\ {channel.segments[k] : k \in 1..Len(channel.segments)} = EnabledRuns(t)
    /\ \A f \in EnabledFrameSet(t) :
          Cardinality({k \in 1..Len(channel.segments) :
                          channel.segments[k][1] <= f
                              /\ f <= channel.segments[k][2]}) = 1

\* the step is an update that computed the dopesheet
DopeUpdated == ~dopesheet_ok /\ dopesheet_ok'

SegmentsOfRuns ==
    DopeUpdated =>
        \A k \in 1..Len(live'.dopesheet.channels) :
            ChannelOfRuns(live'.dopesheet.channels[k],
                          DopeTrack(live', live'.dopesheet.channels[k].track))

C21_SegmentsOfRuns == [][SegmentsOfRuns]_vars

\* the dopesheet is computed for the tracks as they are, and a channel
\* counts fewer segments than its track has runs
C21_Witness ==
    /\ dopesheet_ok /\ edit.n = 0 /\ edit.kind = "update"
    /\ \E k \in 1..Len(live.dopesheet.channels) :
          /\ live.dopesheet.channels[k].tot_segment
                 < Cardinality(
                       EnabledRuns(
                           DopeTrack(live, live.dopesheet.channels[k].track)))
          /\ Len(live.dopesheet.channels[k].segments)
                 = live.dopesheet.channels[k].tot_segment

(***************************************************************************)
(* C22: the coverage segments tracking_dopesheet_calc_coverage produces    *)
(* partition the frame range of the tracks: every frame of the range, the  *)
(* last one included, lies in exactly one segment, the class of a segment  *)
(* is the class of the count of enabled markers of each of its frames, and *)
(* segments next to each other have different classes.  Stated of every    *)
(* update that computes the dopesheet.                                     *)
(***************************************************************************)
DopeFrameSet(tracking) ==
    UNION {{tracking.tracks[k].markers[a].framenr :
                a \in 1..markersnr(tracking.tracks[k])} :
              k \in 1..Len(tracking.tracks)}

\* the frames from the least to the greatest frame of a marker
DopeFrameRange(tracking) ==
    {f \in DopeFrameSet(tracking) :
        \A g \in DopeFrameSet(tracking) : f <= g}
    \cup {f \in (DopeFrame - 2)..(DopeFrame + 2) :
            \E g \in DopeFrameSet(tracking), h \in DopeFrameSet(tracking) :
                g <= f /\ f <= h}

EnabledCount(tracking, f) ==
    Cardinality({k \in 1..Len(tracking.tracks) :
                    f \in EnabledFrameSet(tracking.tracks[k])})

SegmentsOn(segments, f) ==
    {k \in 1..Len(segments) :
        segments[k].start_frame <= f /\ f <= segments[k].end_frame}

CoveragePartition(tracking) ==
    /\ \A f \in DopeFrameRange(tracking) :
          /\ Cardinality(SegmentsOn(tracking.dopesheet.coverage_segments, f)) = 1
          /\ \A k \in SegmentsOn(tracking.dopesheet.coverage_segments, f) :
                tracking.dopesheet.coverage_segments[k].coverage
                    = coverage_from_count(EnabledCount(tracking, f))
    /\ \A k \in 1..(Len(tracking.dopesheet.coverage_segments) - 1) :
          tracking.dopesheet.coverage_segments[k].coverage
              # tracking.dopesheet.coverage_segments[k + 1].coverage

CoverageOfUpdate == (DopeUpdated /\ live.tracks # <<>>) => CoveragePartition(live')

C22_CoveragePartition == [][CoverageOfUpdate]_vars

\* the dopesheet is computed for tracks with enabled markers on their last
\* frame, and no coverage segment holds that frame
C22_Witness ==
    /\ dopesheet_ok /\ edit.n = 0 /\ edit.kind = "update"
    /\ \E f \in DopeFrameRange(live) :
          /\ \A g \in DopeFrameRange(live) : g <= f
          /\ EnabledCount(live, f) > 0
          /\ SegmentsOn(live.dopesheet.coverage_segments, f) = {}

(***************************************************************************)
(* C30: when the active object has no tracks, the state right after        *)
(* BKE_tracking_settings_init, BKE_tracking_dopesheet_update leaves the    *)
(* channels and the coverage segments empty and sets ok; the count of      *)
(* frames it computes from the sentinels INT_MAX and -INT_MAX in 32 bits   *)
(* is not positive.                                                        *)
(***************************************************************************)
EmptyDopeUpdate ==
    (~dopesheet_ok /\ live.tracks = <<>> /\ edit'.kind = "update")
        => /\ ~crashed'
           /\ dopesheet_ok'
           /\ live'.dopesheet.channels = <<>>
           /\ live'.dopesheet.coverage_segments = <<>>
           /\ coverage_frames(
                  [start_frame |-> INT_MAX, end_frame |-> -INT_MAX]).v <= 0

C30_EmptyDopesheet == [][EmptyDopeUpdate]_vars

\* the dopesheet of a clip without tracks is updated and has coverage
\* segments
C30_Witness ==
    /\ live.tracks = <<>>
    /\ live = [BKE_tracking_settings_init(Settings("KEYFRAME")) EXCEPT
                  !.dopesheet = live.dopesheet]
    /\ dopesheet_ok /\ edit.kind = "update"
    /\ live.dopesheet.coverage_segments # <<>>

(***************************************************************************)
(* C28: after BKE_tracking_reconstruction_finish the point, the HAS_BUNDLE *)
(* flag and the error of a track are what the solver gave for the index    *)
(* the track had in the list when                                          *)
(* BKE_tracking_reconstruction_context_new was called, whatever tracks the *)
(* user added to or removed from the list in between.  Stated of the       *)
(* tracks of the context: the track of index a is, after the finish, the   *)
(* copy the hash of the map holds for the element a of the map.            *)
(***************************************************************************)
\* the tracks of the list that are the track at addr
SolvedTrackAt(addr) ==
    {k \in 1..Len(live.tracks) : live.tracks[k].addr = addr}

\* the point the solver gave, in the coordinates of the first camera it
\* gave
PointFromOrigin(point) ==
    IF SolvedFrames # {} THEN mul_v3_m4v3(OriginInverse, point.pos)
    ELSE point.pos

\* the track has what the solver gave as point
BundleOfPoint(t, point) ==
    IF point.has
    THEN "HAS_BUNDLE" \in t.flag /\ t.bundle_pos = PointFromOrigin(point)
             /\ t.error = point.error
    ELSE "HAS_BUNDLE" \notin t.flag

C28_BundleOfOwnIndex ==
    (solve.op = "finished" /\ ~crashed) =>
        \A a \in 1..solve.context.tracks_map.num_tracks :
            /\ SolvedTrackAt(solve.context.tracks_map.hash[a]) # {}
            /\ \A k \in SolvedTrackAt(solve.context.tracks_map.hash[a]) :
                  BundleOfPoint(live.tracks[k],
                                libmv_point(solve.context.reconstruction, a - 1))

\* the user has added a track at a fresh address while the context was
\* there, and after the finish a track of the context has a point the
\* solver gave for another index
C28_Witness ==
    /\ solve.op = "finished" /\ ~crashed
    /\ edit.kind = "track_add"
    /\ added # {}
    /\ \E a \in 1..solve.context.tracks_map.num_tracks :
          \E k \in SolvedTrackAt(solve.context.tracks_map.hash[a]) :
              /\ "HAS_BUNDLE" \in live.tracks[k].flag
              /\ libmv_point(solve.context.reconstruction, a - 1).has
              /\ live.tracks[k].bundle_pos
                     # PointFromOrigin(
                           libmv_point(solve.context.reconstruction, a - 1))

\* without a track added by the user the correspondence holds
C28_BundleWithoutAdd ==
    (solve.op = "finished" /\ ~crashed /\ added = {}
        /\ (edit.n > 0 => edit.kind = "track_delete"))
        => C28_BundleOfOwnIndex

(***************************************************************************)
(* C27.  Autoscale sufficiency: with AUTOSCALE on, after                   *)
(* stabilization_calculate_autoscale_factor has stored stab.scale, for     *)
(* every frame in the frame range of the stabilization tracks the frame    *)
(* rectangle warped by that frame's translation and by the stored scale    *)
(* holds all four corners of the original frame, whatever stab.maxscale    *)
(* is.  For every stab.maxscale this fails: the stored scale is cut at a   *)
(* positive stab.maxscale, and no scale covers the frame when a            *)
(* translation reaches half the frame.  It holds when stab.maxscale is not *)
(* positive and every translation is below half the frame, and when a      *)
(* positive stab.maxscale itself covers every frame.                       *)
(***************************************************************************)
\* the frame range of the tracks used for stabilization
StabRange(tracking) ==
    autoscale_range(tracking, tracking.tracks, 1,
                    [sfra |-> INT_MAX, efra |-> -INT_MAX - 1])

\* the translation of stabilization_calculate_data for the frame framenr
\* when the scale is scale
StabTranslation(tracking, framenr, scale) ==
    stabilization_calculate_data(
        [tracking.stabilization EXCEPT !.scale = scale, !.scaleinf = 1],
        stabilization_median_point_get(tracking.tracks, 1).median,
        stabilization_median_point_get(tracking.tracks, framenr).median
    ).translation

\* the side 0..size of the frame, scaled by scale about its middle and then
\* moved by n / d, holds 0 and size
SideCovered(size, scale, n, d) ==
    /\ scale.d > 0 /\ d > 0
    /\ size * scale.d * d - scale.n * size * d + 2 * n * scale.d <= 0
    /\ -size * scale.d * d + scale.n * size * d + 2 * n * scale.d >= 0

\* the frame rectangle warped by the translation and the scale holds the
\* four corners of the frame
FrameCovered(width, height, scale, translation) ==
    /\ SideCovered(width, scale, translation.n[1], translation.d)
    /\ SideCovered(height, scale, translation.n[2], translation.d)

\* every frame of the range is covered when the frames are warped by their
\* translation as stabilization_calculate_data gives it and by scale
RangeCovered(tracking, scale) ==
    \A framenr \in StabRange(tracking).sfra..StabRange(tracking).efra :
        LET m == stabilization_median_point_get(tracking.tracks, framenr)
            data == stabilization_calculate_data(
                        tracking.stabilization,
                        stabilization_median_point_get(
                            tracking.tracks, 1).median,
                        m.median)
        IN  FrameCovered(StabWidth, StabHeight, scale, data.translation)

\* every translation of the range, at the scale 1, is below half the frame
RangeBelowHalf(tracking) ==
    \A framenr \in StabRange(tracking).sfra..StabRange(tracking).efra :
        LET t == StabTranslation(tracking, framenr, Float(1, 1))
        IN  /\ 2 * t.n[1] < StabWidth * t.d /\ -2 * t.n[1] < StabWidth * t.d
            /\ 2 * t.n[2] < StabHeight * t.d /\ -2 * t.n[2] < StabHeight * t.d

\* a step in which stabilization_calculate_autoscale_factor stores the scale
AutoscaleStep ==
    /\ ~live.stabilization_ok /\ live'.stabilization_ok /\ ~crashed'
    /\ "AUTOSCALE" \in live.stabilization.flag

\* stab.maxscale lets the autoscale cover the frames
MaxscaleCovers(tracking) ==
    IF float_gt(tracking.stabilization.maxscale, Float(0, 1))
    THEN RangeCovered(
             [tracking EXCEPT
                 !.stabilization.scale = tracking.stabilization.maxscale],
             tracking.stabilization.maxscale)
    ELSE RangeBelowHalf(tracking)

AutoscaleCoversWithin ==
    AutoscaleStep /\ MaxscaleCovers(live')
        => RangeCovered(live', live'.stabilization.scale)

AutoscaleCovers ==
    AutoscaleStep => RangeCovered(live', live'.stabilization.scale)

====
